---- MODULE Spec2Model ----
(***************************************************************************)
(* A model of the meetingbar engine: calendar aggregation                  *)
(* (TrayManager.refreshMeetings over the Google and the GNOME backend),    *)
(* the tray display resolver (TrayManager.updateTrayDisplay) and the       *)
(* reminder scheduler (NotificationManager.checkForUpcomingMeetings).      *)
(*                                                                         *)
(* Time is counted in whole minutes.  The program has no lock: the refresh *)
(* goroutine and the one-minute notification watcher share the meeting     *)
(* lists and the notified map, so every read and write of shared state is  *)
(* a step of its own and the steps of the workers interleave.              *)
(***************************************************************************)
EXTENDS Integers, Sequences, FiniteSets, TLC

(***************************************************************************)
(* Bounds of the model.                                                    *)
(***************************************************************************)
MaxTime == 3        \* the clock runs over 0..MaxTime
MaxEvents == 2      \* raw events one calendar delivers to one fetch
MaxLead == 2        \* the configured lead time is one of 1..MaxLead minutes
MaxFires == 2       \* the reminder counters saturate here
MaxTokens == 2      \* words of a description and of a location
MaxSeconds == 5460  \* the durations that are formatted run up to this, in seconds
MaxLength == 31     \* Config.MaxTitleLength runs up to this

(***************************************************************************)
(* Program constants, in minutes.                                          *)
(***************************************************************************)
DefaultRefreshInterval == 5
DefaultNotificationTime == 5
DefaultMaxTitleLength == 25
DefaultCurrentMeetingFormat == <<"{title}", " ", "{time_left}", " left">>
DefaultUpcomingMeetingFormat == <<"{title}", " in ", "{time_until}">>
Minute == 60        \* time.Minute, in seconds (the tray texts count in seconds)
Hour == 60
Day == 1440
Zero == 0 - 1       \* the zero time.Time (never the value of a parsed time)

None == [none |-> TRUE]

Range(s) == {s[i] : i \in 1..Len(s)}

(***************************************************************************)
(* Titles are compared as Go compares strings.  Titles lists the titles of *)
(* the model in that order.                                                *)
(***************************************************************************)
Titles == <<"", "(No title)", "A", "B", "C", "D", "E">>

TitleRank(t) == CHOOSE i \in 1..Len(Titles) : Titles[i] = t

TitleLess(a, b) == TitleRank(a) < TitleRank(b)

(***************************************************************************)
(* Text.  A description or a location is a sequence of words; strings.Join *)
(* puts a space between the two.  A word is a URL taken apart: its scheme  *)
(* ("" when the word has none), the labels of its host, the directory part *)
(* of its path and the last segment of the path.                           *)
(***************************************************************************)
Url(scheme, host, dir, slug) ==
    [Scheme |-> scheme, Host |-> host, Dir |-> dir, Slug |-> slug]

LowerHyphen == {"abc-defg-hij", "room"}     \* the segments that match [a-z-]+
Digits == {"123"}                           \* the segments that match \d+

\* strings.Contains(host, domain), label by label
Contains(host, domain) ==
    \E k \in 0..(Len(host) - Len(domain)) :
        SubSeq(host, k + 1, k + Len(domain)) = domain

\* the host matches [^/]*domain
EndsWith(host, domain) ==
    /\ Len(host) >= Len(domain)
    /\ SubSeq(host, Len(host) - Len(domain) + 1, Len(host)) = domain

HasScheme(word) == word.Scheme \in {"http", "https"}       \* https?://

(***************************************************************************)
(* The regular expressions of parser.go, lines 17-28.                      *)
(***************************************************************************)
googleMeetRegex(word) ==
    /\ HasScheme(word) /\ word.Host = <<"meet", "google", "com">>
    /\ word.Dir = "/" /\ word.Slug \in LowerHyphen

teamsRegex(word) ==
    /\ HasScheme(word) /\ word.Host = <<"teams", "microsoft", "com">>
    /\ word.Dir = "/l/meetup-join/" /\ word.Slug # ""

teamsLiveRegex(word) ==
    /\ HasScheme(word) /\ word.Host = <<"teams", "live", "com">>
    /\ word.Dir = "/meet/" /\ word.Slug # ""

zoomRegex(word) ==
    /\ HasScheme(word) /\ EndsWith(word.Host, <<"zoom", "us">>)
    /\ word.Dir = "/j/" /\ word.Slug \in Digits

zoomMyRegex(word) ==
    /\ HasScheme(word) /\ EndsWith(word.Host, <<"zoom", "us">>)
    /\ word.Dir = "/my/" /\ word.Slug # ""

MeetingLink(url, type) == [URL |-> url, Type |-> type]

\* regex.MatchString(word), the regular expression by its name
MatchString(regex, word) ==
    CASE regex = "googleMeetRegex" -> googleMeetRegex(word)
      [] regex = "teamsRegex" -> teamsRegex(word)
      [] regex = "teamsLiveRegex" -> teamsLiveRegex(word)
      [] regex = "zoomRegex" -> zoomRegex(word)
      [] regex = "zoomMyRegex" -> zoomMyRegex(word)

\* regex.FindAllString(text, -1), each match as a MeetingLink of the type
FindAllString(regex, text, type) ==
    LET matches == SelectSeq(text, LAMBDA word : MatchString(regex, word))
    IN  [i \in 1..Len(matches) |-> MeetingLink(matches[i], type)]

\* a parser that walks the text once and takes every match where it stands
ParseMeetingLinks_TextOrder(description, location) ==
    LET text == description \o location
        typeOf(word) == IF googleMeetRegex(word) THEN "meet"
                        ELSE IF teamsRegex(word) \/ teamsLiveRegex(word) THEN "teams"
                        ELSE "zoom"
        matches == SelectSeq(text, LAMBDA word :
                       \E regex \in {"googleMeetRegex", "teamsRegex", "teamsLiveRegex",
                                     "zoomRegex", "zoomMyRegex"} :
                           MatchString(regex, word))
    IN  [i \in 1..Len(matches) |-> MeetingLink(matches[i], typeOf(matches[i]))]

(***************************************************************************)
(* ParseMeetingLinks: the matches of the joined text, one regular          *)
(* expression after the other.                                             *)
(***************************************************************************)
ParseMeetingLinks(description, location) ==
    LET text == description \o location
    IN  FindAllString("googleMeetRegex", text, "meet")
          \o FindAllString("teamsRegex", text, "teams")
          \o FindAllString("teamsLiveRegex", text, "teams")
          \o FindAllString("zoomRegex", text, "zoom")
          \o FindAllString("zoomMyRegex", text, "zoom")

\* the first link of the type, or None
FirstOfType(links, type) ==
    LET found == {i \in 1..Len(links) : links[i].Type = type}
    IN  IF found = {} THEN None
        ELSE links[CHOOSE i \in found : \A j \in found : i <= j]

\* a selection that lets the location decide before the description
GetPrimaryMeetingLink_LocationFirst(description, location) ==
    LET links == ParseMeetingLinks(<<>>, location) \o ParseMeetingLinks(description, <<>>)
    IN  IF Len(links) = 0 THEN None ELSE links[1]

(***************************************************************************)
(* GetPrimaryMeetingLink: Google Meet, then Teams, then Zoom, then the     *)
(* first link.                                                             *)
(***************************************************************************)
GetPrimaryMeetingLink(description, location) ==
    LET links == ParseMeetingLinks(description, location)
    IN  IF Len(links) = 0 THEN None
        ELSE IF FirstOfType(links, "meet") # None THEN FirstOfType(links, "meet")
        ELSE IF FirstOfType(links, "teams") # None THEN FirstOfType(links, "teams")
        ELSE IF FirstOfType(links, "zoom") # None THEN FirstOfType(links, "zoom")
        ELSE links[1]

(***************************************************************************)
(* GnomeCalendarService.isMeetingLink, detectMeetingTypeEnum: the domains  *)
(* are looked for anywhere in the lower-cased text.                        *)
(***************************************************************************)
meetingDomains ==
    <<(<<"meet", "google", "com">>), (<<"zoom", "us">>),
      (<<"teams", "microsoft", "com">>), (<<"webex", "com">>),
      (<<"gotomeeting", "com">>)>>

TextContains(text, domain) ==
    \E i \in 1..Len(text) : Contains(text[i].Host, domain)

isMeetingLink(text) ==
    \E d \in 1..Len(meetingDomains) : TextContains(text, meetingDomains[d])

detectMeetingTypeEnum(url) ==
    IF TextContains(url, <<"meet", "google", "com">>) THEN "meet"
    ELSE IF TextContains(url, <<"zoom", "us">>) THEN "zoom"
    ELSE IF TextContains(url, <<"teams", "microsoft", "com">>) THEN "teams"
    ELSE "unknown"

(***************************************************************************)
(* calendar.Meeting.                                                       *)
(***************************************************************************)
Meeting(id, title, start, end, cal, acct, link) ==
    [ID |-> id, Title |-> title, StartTime |-> start, EndTime |-> end,
     CalendarID |-> cal, AccountID |-> acct, IsAllDay |-> FALSE,
     MeetingLink |-> link]

(***************************************************************************)
(* A raw event, as a backend delivers it.  For Google it is a              *)
(* calendar.Event; for GNOME it is the text of one VEVENT.                 *)
(*   StartKind "dateTime": Start.DateTime is set / DTSTART:20060102T150405Z*)
(*             "date"    : Start.Date is set    / DTSTART:20060102         *)
(*             "bad"     : the value does not parse                        *)
(*             "none"    : no start             / no DTSTART: line (a      *)
(*                         DTSTART;VALUE=DATE:... line is not one)         *)
(*   EndKind likewise.                                                     *)
(* Description, Location: the texts; EntryPoints: the entry points of the  *)
(* conference data, each with its EntryPointType and Uri.  RawEvent makes  *)
(* an event without them.                                                  *)
(***************************************************************************)
RawEvent(id, summary, status, sk, s, ek, e) ==
    [Id |-> id, Summary |-> summary, Status |-> status,
     StartKind |-> sk, Start |-> s, EndKind |-> ek, End |-> e,
     Description |-> <<>>, Location |-> <<>>, EntryPoints |-> <<>>]

(***************************************************************************)
(* convertEventToMeeting, lines 339-366: the first video entry point on    *)
(* meet.google.com, or else GetPrimaryMeetingLink over the description and *)
(* the location.                                                           *)
(***************************************************************************)
ConferenceLink(entryPoints) ==
    LET found == {i \in 1..Len(entryPoints) :
                     /\ entryPoints[i].EntryPointType = "video"
                     /\ Contains(entryPoints[i].Uri.Host, <<"meet", "google", "com">>)}
    IN  IF found = {} THEN None
        ELSE MeetingLink(entryPoints[CHOOSE i \in found : \A j \in found : i <= j].Uri,
                         "meet")

EventLink(event) ==
    IF ConferenceLink(event.EntryPoints) # None THEN ConferenceLink(event.EntryPoints)
    ELSE GetPrimaryMeetingLink(event.Description, event.Location)

(***************************************************************************)
(* parseCalendarObject, lines 307-318: a location that is not empty and    *)
(* names a meeting domain is the link, whole.                              *)
(***************************************************************************)
LocationLink(location) ==
    IF location # <<>> /\ isMeetingLink(location)
    THEN MeetingLink(location, detectMeetingTypeEnum(location))
    ELSE None

(***************************************************************************)
(* GoogleCalendarService.convertEventToMeeting: nil (None) or a Meeting.   *)
(***************************************************************************)
convertEventToMeeting(event, calendarID, accountID) ==
    IF event.StartKind = "none" \/ event.Status = "cancelled" THEN None
    ELSE IF event.StartKind = "bad" THEN None
    ELSE IF event.StartKind = "date" THEN None      \* isAllDay: skipped
    ELSE LET startTime == event.Start
             endTime == IF event.EndKind = "dateTime" THEN event.End
                        ELSE startTime + Hour
             title == IF event.Summary = "" THEN "(No title)" ELSE event.Summary
         IN  Meeting(event.Id, title, startTime, endTime, calendarID, accountID,
                     EventLink(event))

(***************************************************************************)
(* GnomeCalendarService.parseICalTime: the three layouts it accepts; the   *)
(* date-only layout parses to the midnight of that date.                   *)
(***************************************************************************)
parseICalTime(kind, value) ==
    IF kind \in {"dateTime", "date"} THEN value ELSE Zero

(***************************************************************************)
(* GnomeCalendarService.parseCalendarObject: an error (None) or a Meeting. *)
(* It reads SUMMARY, DTSTART, DTEND and LOCATION only: the UID, the STATUS *)
(* and the DESCRIPTION of the event are not read, ID, CalendarID and       *)
(* AccountID stay "".                                                      *)
(***************************************************************************)
parseCalendarObject(event) ==
    LET title == event.Summary
        startTime == parseICalTime(event.StartKind, event.Start)
        endTime == parseICalTime(event.EndKind, event.End)
    IN  IF title = "" \/ startTime = Zero \/ endTime = Zero THEN None
        ELSE Meeting("", title, startTime, endTime, "", "", LocationLink(event.Location))

(***************************************************************************)
(* The loop over the items of one calendar, in GetMeetings (Google) and in *)
(* getMeetingsFromCalendar (GNOME): every event that converts is appended. *)
(***************************************************************************)
RECURSIVE GoogleEvents(_, _, _)
GoogleEvents(items, calendarID, accountID) ==
    IF items = <<>> THEN <<>>
    ELSE LET meeting == convertEventToMeeting(Head(items), calendarID, accountID)
             rest == GoogleEvents(Tail(items), calendarID, accountID)
         IN  IF meeting = None THEN rest ELSE <<meeting>> \o rest

RECURSIVE getMeetingsFromCalendar(_)
getMeetingsFromCalendar(objects) ==
    IF objects = <<>> THEN <<>>
    ELSE LET meeting == parseCalendarObject(Head(objects))
             rest == getMeetingsFromCalendar(Tail(objects))
         IN  IF meeting = None THEN rest ELSE <<meeting>> \o rest

(***************************************************************************)
(* GoogleCalendarService.GetMeetings for one account whose client could be *)
(* built: the enabled calendars in order; a calendar whose Events.List     *)
(* fails (calendarID \in failed) is skipped.  held[c] is what the calendar  *)
(* c holds.                                                                *)
(***************************************************************************)
RECURSIVE GoogleGetMeetings(_, _, _, _)
GoogleGetMeetings(accountID, enabledCalendars, held, failed) ==
    IF enabledCalendars = <<>> THEN <<>>
    ELSE LET calendarID == Head(enabledCalendars)
             rest == GoogleGetMeetings(accountID, Tail(enabledCalendars), held, failed)
         IN  IF calendarID \in failed THEN rest
             ELSE GoogleEvents(held[calendarID], calendarID, accountID) \o rest

(***************************************************************************)
(* GnomeCalendarService.GetMeetings once the bus is connected.             *)
(***************************************************************************)
RECURSIVE GnomeGetMeetings(_, _, _)
GnomeGetMeetings(calendarIDs, held, failed) ==
    IF calendarIDs = <<>> THEN <<>>
    ELSE LET calendarID == Head(calendarIDs)
             rest == GnomeGetMeetings(Tail(calendarIDs), held, failed)
         IN  IF calendarID \in failed THEN rest
             ELSE getMeetingsFromCalendar(held[calendarID]) \o rest

(***************************************************************************)
(* sort.Slice(allMeetings, StartTime.Before): below twelve elements Go     *)
(* sorts by insertion, which leaves elements that compare equal in the     *)
(* order they came in.                                                     *)
(***************************************************************************)
Before(a, b) == a < b

RECURSIVE InsertByStartTime(_, _)
InsertByStartTime(sorted, m) ==
    IF sorted = <<>> THEN <<m>>
    ELSE LET last == sorted[Len(sorted)]
         IN  IF Before(m.StartTime, last.StartTime)
             THEN InsertByStartTime(SubSeq(sorted, 1, Len(sorted) - 1), m) \o <<last>>
             ELSE sorted \o <<m>>

RECURSIVE SortInto(_, _)
SortInto(sorted, rest) ==
    IF rest = <<>> THEN sorted
    ELSE SortInto(InsertByStartTime(sorted, Head(rest)), Tail(rest))

\* a refreshMeetings that publishes the meetings as they were fetched
SortByStartTime_Unsorted(allMeetings) == allMeetings

SortByStartTime(allMeetings) == SortInto(<<>>, allMeetings)

\* a loop over the accounts that keeps the meetings of the last account only
appendMeetings_Overwrite(allMeetings, meetings) == meetings

(***************************************************************************)
(* allMeetings = append(allMeetings, meetings...)                          *)
(***************************************************************************)
appendMeetings(allMeetings, meetings) == allMeetings \o meetings


(***************************************************************************)
(* The state.                                                              *)
(***************************************************************************)
VARIABLES
    now,                \* time.Now(), in minutes
    config,             \* config.Config: the fields the engine reads
    content,            \* what each calendar holds, while nobody edits the calendars
    enabledSources,     \* the GNOME calendar sources whose Enabled property is true
    conn,               \* GnomeCalendarService.conn is not nil
    tm_meetings,        \* TrayManager.meetings
    nm_meetings,        \* NotificationManager.meetings
    notifiedMeetings,   \* NotificationManager.notifiedMeetings: the IDs mapped to true
    display,            \* what updateTrayDisplay / updateTrayForNoAccounts last showed
    slots,              \* TrayManager.meetingSlots: the slots that are shown, the
                        \* click handlers started on them, and what the last click
                        \* on a slot opened
    pc,                 \* where each worker stands
    loc,                \* the local variables of each worker
    tickPending,        \* the workers whose ticker holds a tick that is not served yet
    ticker,             \* TrayManager.ticker: None before startPeriodicRefresh, then
                        \* the period NewTicker was given and the time it was made
    proc,               \* the process: "starting" (OnReady has built the managers),
                        \* "running", "cancelled" (cleanup has run), "exited"
                        \* (main has returned) or "panicked"
    track,              \* history: per meeting of nm_meetings, whether it came (under
                        \*          the notification settings in force) before its
                        \*          reminder was due, and the reminders sent for it
    fn                  \* a call of a function on its own: the function, its
                        \* arguments and its result

engineVars == <<now, config, content, enabledSources, conn, tm_meetings, nm_meetings,
                notifiedMeetings, display, pc, loc, tickPending, track, proc, slots, ticker>>

vars == <<engineVars, fn>>

NoCall == [op |-> "none"]

Refreshers == {"timer"}      \* OnReady's first refresh, then the refresh ticker's goroutine
Clicks == {"click"}          \* a goroutine a click on "Refresh" starts
Watcher == "watcher"         \* the notification watcher's goroutine
Workers == Refreshers \cup Clicks \cup {Watcher}

CalendarList == <<"c1", "c2">>
Cals == Range(CalendarList)

\* ok, bad: the sources <<account, calendar>> this cycle fetched and failed to
\* fetch; sent: the IDs this check sent a reminder for; delivered: the last
\* reminder this check sent reached a notifier; started: the configuration
\* when this cycle read it first
Loc0 == [allMeetings |-> <<>>, accounts |-> <<>>, i |-> 0, now |-> 0,
         notificationTime |-> 0, range |-> <<>>, ok |-> {}, bad |-> {}, sent |-> {},
         delivered |-> TRUE, started |-> None]

Sources(account, calendarIDs) == {<<account, c>> : c \in Range(calendarIDs)}

Failing(account, failed) == {<<account, c>> : c \in failed}

(***************************************************************************)
(* The sequences of at most n different elements of S.                     *)
(***************************************************************************)
SeqsUpTo(S, n) ==
    UNION {{s \in [1..k -> S] : \A i, j \in 1..k : i # j => s[i] # s[j]} : k \in 0..n}

(***************************************************************************)
(* Events.List(...).OrderBy("startTime"): Google delivers the items of a   *)
(* calendar ordered by start.                                              *)
(***************************************************************************)
StartOrdered(items) ==
    \A i, j \in 1..Len(items) : i < j => items[i].Start <= items[j].Start

(***************************************************************************)
(* UnifiedCalendarService.IsGnomeBackend, RequiresAuthentication.          *)
(***************************************************************************)
IsGnomeBackend == config.CalendarBackend = "gnome"

RequiresAuthentication == config.CalendarBackend = "google"

(***************************************************************************)
(* Config.GetNotificationDuration: minutes.                                *)
(***************************************************************************)
GetNotificationDuration == config.NotificationTime

(***************************************************************************)
(* Config.GetRefreshDuration: minutes.                                     *)
(***************************************************************************)
GetRefreshDuration == config.RefreshInterval

\* time.NewTicker(d), made at time t: the ticker ticks every d minutes from t
NewTicker(d, t) == [period |-> d, started |-> t]

(***************************************************************************)
(* The history.  Early: the meeting is there, with the reminders switched  *)
(* on, more than the lead time before it starts.  A meeting that is not in *)
(* the new nm.meetings starts afresh when it comes back.                   *)
(***************************************************************************)
Early(meeting, cfg) ==
    cfg.EnableNotifications /\ now < meeting.StartTime - cfg.NotificationTime

TrackAfter(meetings) ==
    [m \in Range(meetings) |->
        IF m \in DOMAIN track THEN track[m]
        ELSE [early |-> Early(m, config), sent |-> 0]]

Bump(n) == IF n < MaxFires THEN n + 1 ELSE n


(***************************************************************************)
(* The calendars.  A world gives every calendar the events it holds; the   *)
(* events of a calendar are drawn from a catalogue.                        *)
(***************************************************************************)
Timed(id, summary, s, e) == RawEvent(id, summary, "confirmed", "dateTime", s, "dateTime", e)

\* two meetings, one starting a minute after the other
EngineCatalog ==
    [c \in Cals |->
        IF c = "c1" THEN {Timed("x", "A", 2, 4), Timed("y", "B", 3, 5)} ELSE {}]

\* c1: two meetings that start together, the later title first, and a
\*     cancelled event;
\* c2: a meeting that starts before those of c1 and overlaps them, an all-day
\*     event of the next day, and an event that ends before it starts
CycleCatalog ==
    [c \in Cals |->
        IF c = "c1"
        THEN {Timed("e1", "B", 2, 4), Timed("e2", "A", 2, 5),
              RawEvent("e4", "D", "cancelled", "dateTime", 1, "dateTime", 3)}
        ELSE {Timed("e3", "C", 1, 4),
              RawEvent("e5", "E", "confirmed", "date", Day, "date", 2 * Day),
              Timed("e6", "C", 3, 1)}]

Worlds(catalog, backend) ==
    {world \in [Cals -> UNION {SeqsUpTo(catalog[c], MaxEvents) : c \in Cals}] :
        \A c \in Cals :
            /\ Range(world[c]) \subseteq catalog[c]
            /\ backend = "google" => StartOrdered(world[c])}

(***************************************************************************)
(* What a fetch may find in the calendars: any world when the calendars    *)
(* are edited while the program runs, and content otherwise.               *)
(***************************************************************************)
Readable(edited) ==
    IF edited THEN Worlds(EngineCatalog, config.CalendarBackend) ELSE {content}


(***************************************************************************)
(* TrayManager.updateTrayDisplay: the loop over tm.meetings.  The loop     *)
(* assigns currentMeeting at every meeting that contains now, so the last  *)
(* such meeting of the sequence stays.                                     *)
(***************************************************************************)
After(a, b) == a > b

IsCurrent(meeting, t) == After(t, meeting.StartTime) /\ Before(t, meeting.EndTime)

\* an else branch that takes every meeting that is not current
IsUpcoming_NotCurrent(meeting, t) == ~IsCurrent(meeting, t)

IsUpcoming(meeting, t) == ~IsCurrent(meeting, t) /\ Before(t, meeting.StartTime)

currentMeeting(meetings, t) ==
    LET found == {i \in 1..Len(meetings) : IsCurrent(meetings[i], t)}
    IN  IF found = {} THEN None
        ELSE meetings[CHOOSE i \in found : \A j \in found : j <= i]

upcomingMeetings(meetings, t) ==
    SelectSeq(meetings, LAMBDA meeting : IsUpcoming(meeting, t))

DisplayOf(meetings, t) ==
    IF Len(meetings) = 0
    THEN [state |-> "NoMeetings", meeting |-> None]
    ELSE IF currentMeeting(meetings, t) # None
    THEN [state |-> "InMeeting", meeting |-> currentMeeting(meetings, t)]
    ELSE IF Len(upcomingMeetings(meetings, t)) > 0
    THEN [state |-> "Upcoming", meeting |-> upcomingMeetings(meetings, t)[1]]
    ELSE [state |-> "NoMeetings", meeting |-> None]

(***************************************************************************)
(* TrayManager.meetingSlots.  A slot that is shown is a record: Enabled,   *)
(* and Opens, what a click handler started for it opens: the MeetingLink   *)
(* of the handler's meeting (None: joinMeeting returns at once), or the    *)
(* settings; a disabled slot carries a label and gets no handler.  The     *)
(* slots that are shown are slots 0, 1, ... of the menu, in that order.    *)
(*   shown:    the slots shown, slot 0 first                               *)
(*   handlers: <<n, opens>> for every handler goroutine that waits on the  *)
(*             ClickedCh of slot n-1.  A handler returns on ctx.Done only. *)
(*   clicked:  the last click on a slot and what the handler that took it  *)
(*             opened                                                      *)
(***************************************************************************)
maxMeetingSlots == 10

DefaultMaxMeetings == 5

Settings == [settings |-> TRUE]

Label == [label |-> TRUE]

Slot(enabled, opens) == [Enabled |-> enabled, Opens |-> opens]

NoSlots == [shown |-> <<>>, handlers |-> {}, clicked |-> None]

Min(a, b) == IF a < b THEN a ELSE b

\* TrayManager.displayNoMeetingsInSlots
displayNoMeetingsInSlots == <<Slot(FALSE, Label), Slot(FALSE, Label)>>

\* TrayManager.updateTrayForNoAccounts: slot 0 is a label, slot 1 opens the
\* settings
NoAccountsSlots == <<Slot(FALSE, Label), Slot(TRUE, Settings)>>

(***************************************************************************)
(* TrayManager.displayMeetingsInSlots: the current meeting, then at most   *)
(* MaxMeetings upcoming meetings (the configuration keeps the default),    *)
(* then the "more meetings" label, as far as the slots reach.              *)
(***************************************************************************)
displayMeetingsInSlots(current, upcoming) ==
    LET first == IF current # None THEN <<Slot(TRUE, current.MeetingLink)>> ELSE <<>>
        shownUpcoming == [i \in 1..Min(Len(upcoming), DefaultMaxMeetings) |->
                             Slot(TRUE, upcoming[i].MeetingLink)]
        more == IF Len(upcoming) > DefaultMaxMeetings THEN <<Slot(FALSE, Label)>> ELSE <<>>
        all == first \o shownUpcoming \o more
    IN  SubSeq(all, 1, Min(Len(all), maxMeetingSlots))

\* TrayManager.updateTrayDisplay: what it shows in the slots
SlotsOf(meetings, t) ==
    IF Len(meetings) = 0
    THEN displayNoMeetingsInSlots
    ELSE displayMeetingsInSlots(currentMeeting(meetings, t), upcomingMeetings(meetings, t))

\* the handlers a display step starts: one for every slot it enables
Handlers(shown) == {<<n, shown[n].Opens>> : n \in {i \in 1..Len(shown) : shown[i].Enabled}}

\* a display step: every slot is hidden, the slots of shown are shown, and
\* the handlers of the enabled ones are started beside the ones that run
Shows(s, shown) ==
    [s EXCEPT !.shown = shown, !.handlers = s.handlers \cup Handlers(shown)]

(***************************************************************************)
(* The tray texts.  Durations and times are in seconds here; a template is *)
(* the sequence of its placeholders and of the texts between them.         *)
(***************************************************************************)

\* a cut to the maximum length that never marks the cut
truncateTitle_Cut(title, maxTitleLength) ==
    LET maxLength == IF maxTitleLength <= 0 THEN 25 ELSE maxTitleLength
    IN  IF Len(title) > maxLength THEN SubSeq(title, 1, maxLength) ELSE title

(***************************************************************************)
(* TrayManager.truncateTitle.                                              *)
(***************************************************************************)
truncateTitle(title, maxTitleLength) ==
    LET maxLength == IF maxTitleLength <= 0 THEN 25 ELSE maxTitleLength
    IN  IF Len(title) > maxLength
        THEN IF maxLength <= 3 THEN SubSeq(title, 1, maxLength)
             ELSE SubSeq(title, 1, maxLength - 3) \o "..."
        ELSE title

(***************************************************************************)
(* formatDuration: int(d.Minutes()) drops the seconds.                     *)
(***************************************************************************)
formatDuration(d) ==
    IF d < 0 THEN "0m"
    ELSE LET totalMinutes == d \div Minute
             hours == totalMinutes \div 60
             minutes == totalMinutes % 60
         IN  IF hours > 0
             THEN IF minutes > 0
                  THEN ToString(hours) \o "h " \o ToString(minutes) \o "m"
                  ELSE ToString(hours) \o "h"
             ELSE IF minutes <= 0 THEN "<1m"
             ELSE ToString(minutes) \o "m"

\* time.Format("15:04") of a time of the day
Clock(t) ==
    LET hh == (t \div 3600) % 24
        mm == (t \div Minute) % 60
        Pad(n) == IF n < 10 THEN "0" \o ToString(n) ELSE ToString(n)
    IN  Pad(hh) \o ":" \o Pad(mm)

\* strings.ReplaceAll(template, placeholder, value)
ReplaceAll(template, placeholder, value) ==
    [i \in 1..Len(template) |->
        IF template[i] = placeholder THEN value ELSE template[i]]

RECURSIVE Join(_)
Join(pieces) == IF pieces = <<>> THEN "" ELSE Head(pieces) \o Join(Tail(pieces))

(***************************************************************************)
(* TrayManager.formatMeetingDisplay.                                       *)
(***************************************************************************)
formatMeetingDisplay(template, meeting, timeValue, isTimeLeft, maxTitleLength) ==
    LET title == truncateTitle(meeting.Title, maxTitleLength)
        timeStr == formatDuration(timeValue)
        r1 == ReplaceAll(template, "{title}", title)
        r2 == IF isTimeLeft THEN ReplaceAll(r1, "{time_left}", timeStr)
              ELSE ReplaceAll(r1, "{time_until}", timeStr)
        r3 == ReplaceAll(r2, "{start_time}", Clock(meeting.StartTime))
        r4 == ReplaceAll(r3, "{end_time}", Clock(meeting.EndTime))
    IN  Join(r4)

(***************************************************************************)
(* TrayManager.updateTrayForCurrentMeeting: the title the tray gets.       *)
(***************************************************************************)
updateTrayForCurrentMeeting(meeting, t, format, maxTitleLength) ==
    LET timeLeft == meeting.EndTime - t
    IN  formatMeetingDisplay(format, meeting, timeLeft, TRUE, maxTitleLength)

\* a tray that uses the template however close the meeting is
updateTrayForUpcomingMeeting_Template(meeting, t, format, maxTitleLength) ==
    formatMeetingDisplay(format, meeting, meeting.StartTime - t, FALSE, maxTitleLength)

(***************************************************************************)
(* TrayManager.updateTrayForUpcomingMeeting: the title the tray gets.      *)
(***************************************************************************)
updateTrayForUpcomingMeeting(meeting, t, format, maxTitleLength) ==
    LET timeUntil == meeting.StartTime - t
    IN  IF timeUntil < Minute
        THEN truncateTitle(meeting.Title, maxTitleLength) \o " starting now"
        ELSE formatMeetingDisplay(format, meeting, timeUntil, FALSE, maxTitleLength)

(***************************************************************************)
(* TrayManager.refreshMeetings, lines 178-183: no account with a backend   *)
(* that needs one.                                                         *)
(***************************************************************************)
refreshMeetings_NoAccounts(w) ==
    /\ pc[w] = "refresh"
    /\ RequiresAuthentication /\ Len(config.Accounts) = 0
    /\ pc' = [pc EXCEPT ![w] = "noaccounts"]
    /\ loc' = [loc EXCEPT ![w] = Loc0]
    /\ UNCHANGED <<fn, proc, ticker, slots, now, config, content, enabledSources, conn, tm_meetings,
                   nm_meetings, notifiedMeetings, display, tickPending, track>>

\* an abort that also empties both meeting lists
updateTrayForNoAccounts_Clear(w) ==
    /\ pc[w] = "noaccounts"
    /\ display' = [state |-> "NoAccounts", meeting |-> None]
    /\ slots' = Shows(slots, NoAccountsSlots)
    /\ tm_meetings' = <<>>
    /\ nm_meetings' = <<>>
    /\ pc' = [pc EXCEPT ![w] = "idle"]
    /\ loc' = [loc EXCEPT ![w] = Loc0]
    /\ UNCHANGED <<fn, proc, ticker, now, config, content, enabledSources, conn,
                   notifiedMeetings, tickPending, track>>

(***************************************************************************)
(* TrayManager.updateTrayForNoAccounts: the tray shows "No accounts        *)
(* configured"; neither meeting list is written.                           *)
(***************************************************************************)
updateTrayForNoAccounts(w) ==
    /\ pc[w] = "noaccounts"
    /\ display' = [state |-> "NoAccounts", meeting |-> None]
    /\ slots' = Shows(slots, NoAccountsSlots)
    /\ pc' = [pc EXCEPT ![w] = "idle"]
    /\ loc' = [loc EXCEPT ![w] = Loc0]
    /\ UNCHANGED <<fn, proc, ticker, now, config, content, enabledSources, conn, tm_meetings,
                   nm_meetings, notifiedMeetings, tickPending, track>>

\* a listing that takes every source, enabled or not
EnabledSourceIDs_All == CalendarList

(***************************************************************************)
(* The calendar IDs GetCalendars yields for GNOME: the sources whose       *)
(* Enabled property is true.                                               *)
(***************************************************************************)
EnabledSourceIDs == SelectSeq(CalendarList, LAMBDA c : c \in enabledSources)

(***************************************************************************)
(* TrayManager.refreshMeetings, lines 187-213: the GNOME branch, with      *)
(* UnifiedCalendarService.GetCalendars / GetMeetings and the GNOME service *)
(* behind them.  connectOK: Connect succeeds; managedOK, managedOK2: the   *)
(* first and the second GetManagedObjects call succeed; failed: the        *)
(* calendars that cannot be opened or queried.                             *)
(***************************************************************************)
refreshMeetings_Gnome(w, edited) ==
    /\ pc[w] = "refresh"
    /\ ~(RequiresAuthentication /\ Len(config.Accounts) = 0)
    /\ IsGnomeBackend
    /\ \E connectOK, managedOK, managedOK2 \in BOOLEAN, failed \in SUBSET Cals,
          world \in Readable(edited) :
        LET connected == conn \/ connectOK
            needList == Len(config.EnabledCalendars) = 0
            listed == connected /\ managedOK
            enabledCalendars == IF needList THEN EnabledSourceIDs
                                ELSE config.EnabledCalendars
            \* UnifiedCalendarService.GetMeetings lists again when it is
            \* handed no calendar
            fetched == IF needList
                       THEN listed /\ (Len(enabledCalendars) = 0 => managedOK2)
                       ELSE connected
        IN  /\ conn' = connected
            /\ IF fetched
               THEN /\ pc' = [pc EXCEPT ![w] = "sort"]
                    /\ loc' = [loc EXCEPT ![w] =
                          [Loc0 EXCEPT !.started = config,
                                       !.ok = Sources("", enabledCalendars)
                                                 \ Failing("", failed),
                                       !.bad = Sources("", enabledCalendars)
                                                 \cap Failing("", failed),
                                       !.allMeetings =
                                           GnomeGetMeetings(enabledCalendars, world, failed)]]
               ELSE /\ pc' = [pc EXCEPT ![w] = "noaccounts"]
                    /\ loc' = [loc EXCEPT ![w] = Loc0]
    /\ UNCHANGED <<fn, proc, ticker, slots, now, config, content, enabledSources, tm_meetings, nm_meetings,
                   notifiedMeetings, display, tickPending, track>>

(***************************************************************************)
(* TrayManager.refreshMeetings, line 216: the loop over the accounts       *)
(* starts; range evaluates tm.config.Accounts once.                        *)
(***************************************************************************)
refreshMeetings_Accounts(w) ==
    /\ pc[w] = "refresh"
    /\ ~(RequiresAuthentication /\ Len(config.Accounts) = 0)
    /\ ~IsGnomeBackend
    /\ pc' = [pc EXCEPT ![w] = IF Len(config.Accounts) = 0 THEN "sort" ELSE "accounts"]
    /\ loc' = [loc EXCEPT ![w] = [Loc0 EXCEPT !.started = config,
                                                  !.accounts = config.Accounts,
                                                  !.i = 1]]
    /\ UNCHANGED <<fn, proc, ticker, slots, now, config, content, enabledSources, conn, tm_meetings,
                   nm_meetings, notifiedMeetings, display, tickPending, track>>

\* refreshMeetings for one account where every backend but "gnome" is served
\* by the Google service
refreshMeetings_Account_Default(w, edited) ==
    /\ pc[w] = "accounts"
    /\ \E listOK, clientOK \in BOOLEAN, failed \in SUBSET Cals,
          world \in Readable(edited) :
        LET account == loc[w].accounts[loc[w].i]
            google == config.CalendarBackend # "gnome"
            needList == Len(config.EnabledCalendars) = 0
            listed == google /\ listOK
            enabledCalendars == IF needList THEN CalendarList
                                ELSE config.EnabledCalendars
            fetched == (needList => listed) /\ google /\ clientOK
            meetings == IF fetched
                        THEN GoogleGetMeetings(account, enabledCalendars, world, failed)
                        ELSE <<>>
            sources == Sources(account, enabledCalendars)
            lost == IF fetched THEN sources \cap Failing(account, failed) ELSE sources
            next == loc[w].i + 1
        IN  /\ loc' = [loc EXCEPT ![w].allMeetings = appendMeetings(@, meetings),
                                  ![w].ok = @ \cup (sources \ lost),
                                  ![w].bad = @ \cup lost,
                                  ![w].i = next]
            /\ pc' = [pc EXCEPT ![w] =
                        IF next > Len(loc[w].accounts) THEN "sort" ELSE "accounts"]
    /\ UNCHANGED <<fn, proc, ticker, slots, now, config, content, enabledSources, conn, tm_meetings,
                   nm_meetings, notifiedMeetings, display, tickPending, track>>

(***************************************************************************)
(* TrayManager.refreshMeetings, lines 216-241: one account.  listOK: the   *)
(* calendar list of the account can be fetched; clientOK: GetMeetings gets *)
(* a client for the account; failed: the calendars whose Events.List       *)
(* fails.  A backend that is neither "google" nor "gnome" fails both       *)
(* calls.                                                                  *)
(***************************************************************************)
refreshMeetings_Account(w, edited) ==
    /\ pc[w] = "accounts"
    /\ \E listOK, clientOK \in BOOLEAN, failed \in SUBSET Cals,
          world \in Readable(edited) :
        LET account == loc[w].accounts[loc[w].i]
            google == config.CalendarBackend = "google"
            needList == Len(config.EnabledCalendars) = 0
            listed == google /\ listOK
            enabledCalendars == IF needList THEN CalendarList
                                ELSE config.EnabledCalendars
            fetched == (needList => listed) /\ google /\ clientOK
            meetings == IF fetched
                        THEN GoogleGetMeetings(account, enabledCalendars, world, failed)
                        ELSE <<>>
            sources == Sources(account, enabledCalendars)
            lost == IF fetched THEN sources \cap Failing(account, failed) ELSE sources
            next == loc[w].i + 1
        IN  /\ loc' = [loc EXCEPT ![w].allMeetings = appendMeetings(@, meetings),
                                  ![w].ok = @ \cup (sources \ lost),
                                  ![w].bad = @ \cup lost,
                                  ![w].i = next]
            /\ pc' = [pc EXCEPT ![w] =
                        IF next > Len(loc[w].accounts) THEN "sort" ELSE "accounts"]
    /\ UNCHANGED <<fn, proc, ticker, slots, now, config, content, enabledSources, conn, tm_meetings,
                   nm_meetings, notifiedMeetings, display, tickPending, track>>

(***************************************************************************)
(* TrayManager.refreshMeetings, lines 244-249: sort, then tm.meetings.     *)
(***************************************************************************)
refreshMeetings_Publish(w) ==
    /\ pc[w] = "sort"
    /\ LET sorted == SortByStartTime(loc[w].allMeetings)
       IN  /\ tm_meetings' = sorted
           /\ loc' = [loc EXCEPT ![w].allMeetings = sorted]
    /\ pc' = [pc EXCEPT ![w] = "update"]
    /\ UNCHANGED <<fn, proc, ticker, slots, now, config, content, enabledSources, conn, nm_meetings,
                   notifiedMeetings, display, tickPending, track>>

(***************************************************************************)
(* NotificationManager.UpdateMeetings, line 2792: nm.meetings.             *)
(***************************************************************************)
UpdateMeetings(w) ==
    /\ pc[w] = "update"
    /\ nm_meetings' = loc[w].allMeetings
    /\ track' = TrackAfter(loc[w].allMeetings)
    /\ loc' = [loc EXCEPT ![w].allMeetings = <<>>]
    /\ pc' = [pc EXCEPT ![w] = "check"]
    /\ UNCHANGED <<fn, proc, ticker, slots, now, config, content, enabledSources, conn, tm_meetings,
                   notifiedMeetings, display, tickPending>>


(***************************************************************************)
(* Where a worker goes when its check returns: the watcher waits for the   *)
(* next tick, refreshMeetings goes on to updateTrayDisplay.                *)
(***************************************************************************)
AfterCheck(w) == IF w = Watcher THEN "idle" ELSE "display"

LoopAt(range, i) == IF i > Len(range) THEN "prune" ELSE "loop"

\* a check that cleans up the notified IDs even with the reminders switched
\* off
checkForUpcomingMeetings_Prune(w) ==
    /\ pc[w] = "check"
    /\ pc' = [pc EXCEPT ![w] = IF config.EnableNotifications
                               THEN LoopAt(nm_meetings, 1) ELSE "prune"]
    /\ loc' = [loc EXCEPT ![w] =
          [Loc0 EXCEPT !.started = loc[w].started,
                       !.ok = loc[w].ok,
                       !.bad = loc[w].bad,
                       !.now = now,
                       !.notificationTime = GetNotificationDuration,
                       !.range = nm_meetings,
                       !.i = 1]]
    /\ UNCHANGED <<fn, proc, ticker, slots, now, config, content, enabledSources, conn, tm_meetings,
                   nm_meetings, notifiedMeetings, display, tickPending, track>>

(***************************************************************************)
(* NotificationManager.checkForUpcomingMeetings, lines 2797-2804: the      *)
(* switch, now, the lead time, and the sequence the first loop ranges over.*)
(***************************************************************************)
checkForUpcomingMeetings(w) ==
    /\ pc[w] = "check"
    /\ IF ~config.EnableNotifications
       THEN /\ pc' = [pc EXCEPT ![w] = AfterCheck(w)]
            /\ loc' = [loc EXCEPT ![w] = [Loc0 EXCEPT !.started = loc[w].started,
                                                      !.ok = loc[w].ok,
                                                      !.bad = loc[w].bad]]
       ELSE /\ pc' = [pc EXCEPT ![w] = LoopAt(nm_meetings, 1)]
            /\ loc' = [loc EXCEPT ![w] =
                  [Loc0 EXCEPT !.started = loc[w].started,
                               !.ok = loc[w].ok,
                               !.bad = loc[w].bad,
                               !.now = now,
                               !.notificationTime = GetNotificationDuration,
                               !.range = nm_meetings,
                               !.i = 1]]
    /\ UNCHANGED <<fn, proc, ticker, slots, now, config, content, enabledSources, conn, tm_meetings,
                   nm_meetings, notifiedMeetings, display, tickPending, track>>

(***************************************************************************)
(* Lines 2806-2812: is the reminder of this meeting due?                   *)
(***************************************************************************)
IsDue(meeting, notified, t, notificationTime) ==
    LET timeUntilMeeting == meeting.StartTime - t
    IN  /\ meeting.ID \notin notified
        /\ timeUntilMeeting <= notificationTime
        /\ timeUntilMeeting > 0

(***************************************************************************)
(* NotificationManager.sendMeetingNotification: a meeting with a link goes *)
(* to notify-send (tryNotifySend) and, when that fails, to beeep.Notify; a *)
(* meeting without a link goes to beeep.Notify.  A failure is logged; the  *)
(* function returns nothing.  The value here is whether a notifier took    *)
(* the reminder.                                                           *)
(***************************************************************************)
sendMeetingNotification(meeting, notifySendOK, beeepOK) ==
    IF meeting.MeetingLink # None /\ notifySendOK THEN TRUE ELSE beeepOK

(***************************************************************************)
(* Lines 2804-2813: one meeting of the first loop.  A due reminder is sent *)
(* (sendMeetingNotification runs notify-send and waits for it) before the  *)
(* ID is marked.                                                           *)
(***************************************************************************)
checkMeeting(w) ==
    /\ pc[w] = "loop"
    /\ LET meeting == loc[w].range[loc[w].i]
           next == loc[w].i + 1
       IN  IF IsDue(meeting, notifiedMeetings, loc[w].now, loc[w].notificationTime)
           THEN /\ pc' = [pc EXCEPT ![w] = "mark"]
                /\ \E notifySendOK, beeepOK \in BOOLEAN :
                     loc' = [loc EXCEPT
                        ![w].sent = @ \cup {meeting.ID},
                        ![w].delivered =
                            sendMeetingNotification(meeting, notifySendOK, beeepOK)]
                /\ track' = IF meeting \in DOMAIN track
                            THEN [track EXCEPT ![meeting].sent = Bump(@)]
                            ELSE track
           ELSE /\ pc' = [pc EXCEPT ![w] = LoopAt(loc[w].range, next)]
                /\ loc' = [loc EXCEPT ![w].i = next]
                /\ UNCHANGED track
    /\ UNCHANGED <<fn, proc, ticker, slots, now, config, content, enabledSources, conn, tm_meetings,
                   nm_meetings, notifiedMeetings, display, tickPending>>

\* a check that marks only the meetings whose reminder was delivered
Marked_IfDelivered(notified, meetingID, delivered) ==
    IF delivered THEN notified \cup {meetingID} ELSE notified

(***************************************************************************)
(* Line 2814: nm.notifiedMeetings[meeting.ID] = true, whatever became of   *)
(* the reminder.                                                           *)
(***************************************************************************)
Marked(notified, meetingID, delivered) == notified \cup {meetingID}

markNotified(w) ==
    /\ pc[w] = "mark"
    /\ LET meeting == loc[w].range[loc[w].i]
           next == loc[w].i + 1
       IN  /\ notifiedMeetings' = Marked(notifiedMeetings, meeting.ID, loc[w].delivered)
           /\ pc' = [pc EXCEPT ![w] = LoopAt(loc[w].range, next)]
           /\ loc' = [loc EXCEPT ![w].i = next]
    /\ UNCHANGED <<fn, proc, ticker, slots, now, config, content, enabledSources, conn, tm_meetings,
                   nm_meetings, display, tickPending, track>>

(***************************************************************************)
(* Lines 2818-2830: an ID stays only while nm.meetings holds a meeting of  *)
(* that ID that has not ended.                                             *)
(***************************************************************************)
Kept(notified, meetings, t) ==
    {meetingID \in notified :
        \E i \in 1..Len(meetings) :
            meetings[i].ID = meetingID /\ Before(t, meetings[i].EndTime)}

pruneNotified(w) ==
    /\ pc[w] = "prune"
    /\ notifiedMeetings' = Kept(notifiedMeetings, nm_meetings, loc[w].now)
    /\ pc' = [pc EXCEPT ![w] = AfterCheck(w)]
    /\ loc' = [loc EXCEPT ![w] = [Loc0 EXCEPT !.started = loc[w].started,
                                              !.ok = loc[w].ok,
                                              !.bad = loc[w].bad]]
    /\ UNCHANGED <<fn, proc, ticker, slots, now, config, content, enabledSources, conn, tm_meetings,
                   nm_meetings, display, tickPending, track>>

(***************************************************************************)
(* TrayManager.updateTrayDisplay, the last call of refreshMeetings.        *)
(***************************************************************************)
updateTrayDisplay(w) ==
    /\ pc[w] = "display"
    /\ display' = DisplayOf(tm_meetings, now)
    /\ slots' = Shows(slots, SlotsOf(tm_meetings, now))
    /\ pc' = [pc EXCEPT ![w] = "idle"]
    /\ loc' = [loc EXCEPT ![w] = Loc0]
    /\ UNCHANGED <<fn, proc, ticker, now, config, content, enabledSources, conn, tm_meetings,
                   nm_meetings, notifiedMeetings, tickPending, track>>

(***************************************************************************)
(* NotificationManager.StartNotificationWatcher: the watcher serves a tick *)
(* of its one-minute ticker.                                               *)
(***************************************************************************)
StartNotificationWatcher ==
    /\ pc[Watcher] = "idle"
    /\ Watcher \in tickPending
    /\ tickPending' = tickPending \ {Watcher}
    /\ pc' = [pc EXCEPT ![Watcher] = "check"]
    /\ UNCHANGED <<fn, proc, ticker, slots, now, config, content, enabledSources, conn, tm_meetings,
                   nm_meetings, notifiedMeetings, display, loc, track>>

(***************************************************************************)
(* A minute passes and the watcher's ticker ticks; the refresh ticker,     *)
(* whose period is some number of minutes, may tick with it unless cleanup *)
(* has stopped it.  The watcher is taken to be punctual: it has served the *)
(* tick before.                                                            *)
(***************************************************************************)
Tick ==
    /\ now < MaxTime
    /\ Watcher \notin tickPending /\ pc[Watcher] = "idle"
    /\ now' = now + 1
    /\ \E ticking \in SUBSET (IF proc = "running" THEN Refreshers ELSE {}) :
        tickPending' = tickPending \cup {Watcher} \cup ticking
    /\ UNCHANGED <<fn, proc, ticker, slots, config, content, enabledSources, conn, tm_meetings, nm_meetings,
                   notifiedMeetings, display, pc, loc, track>>

(***************************************************************************)
(* TrayManager.startPeriodicRefresh: the goroutine serves a tick of the    *)
(* refresh ticker.                                                         *)
(***************************************************************************)
startPeriodicRefresh(w) ==
    /\ pc[w] = "idle"
    /\ w \in tickPending
    /\ tickPending' = tickPending \ {w}
    /\ pc' = [pc EXCEPT ![w] = "refresh"]
    /\ UNCHANGED <<fn, proc, ticker, slots, now, config, content, enabledSources, conn, tm_meetings,
                   nm_meetings, notifiedMeetings, display, loc, track>>

(***************************************************************************)
(* TrayManager.handleMenuClicks: a click on "Refresh" runs refreshMeetings *)
(* in a goroutine of its own.                                              *)
(***************************************************************************)
handleMenuClicks(w) ==
    /\ pc[w] = "idle"
    /\ pc' = [pc EXCEPT ![w] = "refresh"]
    /\ UNCHANGED <<fn, proc, ticker, slots, now, config, content, enabledSources, conn, tm_meetings,
                   nm_meetings, notifiedMeetings, display, loc, tickPending, track>>

(***************************************************************************)
(* TrayManager.openSettings: once ShowSettings has returned (the settings  *)
(* dialog is closed), the goroutine runs refreshMeetings.                  *)
(***************************************************************************)
openSettings(w) ==
    /\ pc[w] = "idle"
    /\ pc' = [pc EXCEPT ![w] = "refresh"]
    /\ UNCHANGED <<fn, proc, ticker, slots, now, config, content, enabledSources, conn, tm_meetings,
                   nm_meetings, notifiedMeetings, display, loc, tickPending, track>>

(***************************************************************************)
(* WebSettingsManager.handleNotificationsAPI, action "save": the switch    *)
(* and the lead time of the request are stored as they come, by the        *)
(* goroutine that serves the request.                                      *)
(***************************************************************************)
handleNotificationsAPI(enableNotifications, notificationTime) ==
    /\ config' = [config EXCEPT !.EnableNotifications = enableNotifications,
                                !.NotificationTime = notificationTime]
    /\ UNCHANGED <<fn, proc, ticker, slots, now, content, enabledSources, conn, tm_meetings, nm_meetings,
                   notifiedMeetings, display, pc, loc, tickPending, track>>

(***************************************************************************)
(* WebSettingsManager.handleCalendarsAPI, action "save": the selection of  *)
(* the request becomes config.EnabledCalendars, by the goroutine that      *)
(* serves the request.                                                     *)
(***************************************************************************)
handleCalendarsAPI(selectedCalendars) ==
    /\ config' = [config EXCEPT !.EnabledCalendars = selectedCalendars]
    /\ UNCHANGED <<fn, proc, ticker, slots, now, content, enabledSources, conn, tm_meetings, nm_meetings,
                   notifiedMeetings, display, pc, loc, tickPending, track>>

(***************************************************************************)
(* A minute passes while no watcher runs.                                  *)
(***************************************************************************)
Elapse ==
    /\ now < MaxTime
    /\ now' = now + 1
    /\ UNCHANGED <<fn, proc, ticker, slots, config, content, enabledSources, conn, tm_meetings, nm_meetings,
                   notifiedMeetings, display, pc, loc, tickPending, track>>

\* Config.NotificationTime, when it is positive
LeadTimes == 1..MaxLead

(***************************************************************************)
(* The managers as OnReady builds them: no meeting, nothing notified.      *)
(***************************************************************************)
Built ==
    /\ now = 0
    /\ conn = FALSE
    /\ tm_meetings = <<>>
    /\ nm_meetings = <<>>
    /\ notifiedMeetings = {}
    /\ display = [state |-> "NoMeetings", meeting |-> None]
    /\ slots = NoSlots
    /\ loc = [w \in Workers |-> Loc0]
    /\ tickPending = {}
    /\ track = [m \in {} |-> 0]

(***************************************************************************)
(* The state OnReady leaves before its first refreshMeetings: the managers *)
(* built, the tickers started.                                             *)
(***************************************************************************)
Fresh ==
    /\ Built
    /\ proc = "running"
    /\ ticker = NewTicker(DefaultRefreshInterval, 0)

Config(backend, accounts, enabled, notify, minutes) ==
    [CalendarBackend |-> backend, Accounts |-> accounts, EnabledCalendars |-> enabled,
     EnableNotifications |-> notify, NotificationTime |-> minutes,
     RefreshInterval |-> DefaultRefreshInterval]

Backends == {"google", "gnome"}

(***************************************************************************)
(* The engine: one refresh goroutine and the notification watcher over one *)
(* calendar of one account, while the clock runs.  The calendar is edited  *)
(* at any time: a fetch finds it holding any world, and content is not     *)
(* kept.                                                                   *)
(***************************************************************************)
Init ==
    /\ Fresh
    /\ \E backend \in Backends, accounts \in {<<>>, <<"a1">>},
          notify \in BOOLEAN, minutes \in LeadTimes :
        /\ pc = [w \in Workers |-> IF w \in Refreshers THEN "refresh" ELSE "idle"]
        /\ backend = "gnome" => accounts = <<>>
        /\ config = Config(backend, accounts, <<"c1">>, notify, minutes)
        /\ content = [c \in Cals |-> <<>>]
    /\ enabledSources = Cals
    /\ fn = NoCall

Refresh(w, edited) ==
    \/ refreshMeetings_NoAccounts(w)
    \/ refreshMeetings_Gnome(w, edited)
    \/ refreshMeetings_Accounts(w)
    \/ refreshMeetings_Account(w, edited)
    \/ refreshMeetings_Publish(w)
    \/ UpdateMeetings(w)
    \/ updateTrayDisplay(w)
    \/ updateTrayForNoAccounts(w)

Check(w) ==
    \/ checkForUpcomingMeetings(w)
    \/ checkMeeting(w)
    \/ markNotified(w)
    \/ pruneNotified(w)

Next ==
    \/ \E w \in Refreshers : Refresh(w, TRUE)
    \/ \E w \in Refreshers : startPeriodicRefresh(w)
    \/ \E w \in Refreshers \cup {Watcher} : Check(w)
    \/ StartNotificationWatcher
    \/ Tick

Spec == Init /\ [][Next]_vars

(***************************************************************************)
(* Refresh cycles one after the other, each started by a click on          *)
(* "Refresh", over calendars that nobody edits; no watcher runs.  A cycle  *)
(* takes less than a minute.  Setups: the configurations, each with the    *)
(* GNOME sources that are enabled.                                         *)
(***************************************************************************)
Setups ==
    {<<Config("google", <<>>, <<"c1", "c2">>, FALSE, 1), Cals>>,
     <<Config("google", <<"a1">>, <<>>, FALSE, 1), Cals>>,
     <<Config("google", <<"a1">>, <<"c1", "c2">>, FALSE, 1), Cals>>,
     <<Config("google", <<"a1", "a2">>, <<"c1">>, FALSE, 1), Cals>>,
     <<Config("gnome", <<>>, <<>>, FALSE, 1), Cals>>,
     <<Config("gnome", <<>>, <<>>, FALSE, 1), {"c1"}>>,
     <<Config("gnome", <<>>, <<"c1", "c2">>, FALSE, 1), Cals>>,
     <<Config("gnome", <<>>, <<"c2">>, TRUE, 1), Cals>>}

CycleInit ==
    /\ Fresh
    /\ pc = [w \in Workers |-> "idle"]
    /\ \E setup \in Setups :
        /\ config = setup[1]
        /\ enabledSources = setup[2]
        /\ content \in Worlds(CycleCatalog, setup[1].CalendarBackend)
    /\ fn = NoCall

Idle == \A w \in Workers : pc[w] = "idle"

CycleNext ==
    \/ \E w \in Clicks : handleMenuClicks(w)
    \/ \E w \in Clicks : Refresh(w, FALSE)
    \/ \E w \in Clicks : Check(w)
    \/ Idle /\ Elapse

CycleSpec == CycleInit /\ [][CycleNext]_vars

\* Config.NotificationTime as the configuration file or a request gives it:
\* nothing keeps it positive
NotificationTimes == (0 - 1)..MaxLead

(***************************************************************************)
(* The settings: refresh cycles one after the other, each started by a     *)
(* click on "Refresh", with the notification settings saved between them;  *)
(* nobody edits the calendars and no watcher runs.                         *)
(***************************************************************************)
SettingsInit ==
    /\ Fresh
    /\ pc = [w \in Workers |-> "idle"]
    /\ \E backend \in Backends, accounts \in {<<>>, <<"a1">>},
          notify \in BOOLEAN, minutes \in NotificationTimes :
        /\ backend = "gnome" => accounts = <<>>
        /\ config = Config(backend, accounts, <<"c1">>, notify, minutes)
        /\ content \in Worlds(EngineCatalog, backend)
    /\ enabledSources = Cals
    /\ fn = NoCall

SettingsNext ==
    \/ \E w \in Clicks : handleMenuClicks(w)
    \/ \E w \in Clicks : Refresh(w, FALSE)
    \/ \E w \in Clicks : Check(w)
    \/ Idle /\ \E enableNotifications \in BOOLEAN, notificationTime \in NotificationTimes :
                  handleNotificationsAPI(enableNotifications, notificationTime)
    \/ Idle /\ Elapse

SettingsSpec == SettingsInit /\ [][SettingsNext]_vars

(***************************************************************************)
(* The functions on their own.  The engine stands still.                   *)
(***************************************************************************)
Parked ==
    /\ Fresh
    /\ pc = [w \in Workers |-> "idle"]
    /\ config = Config("google", <<>>, <<>>, FALSE, DefaultNotificationTime)
    /\ content = [c \in Cals |-> <<>>]
    /\ enabledSources = Cals

(***************************************************************************)
(* The normalisers and the link parser.  The words of the texts: a link of *)
(* every kind the parser knows, and one of a domain only the GNOME service *)
(* knows.  The entry points: none, a video entry on meet.google.com after  *)
(* a phone entry, a video entry on another domain.                         *)
(***************************************************************************)
LinkWords ==
    {Url("https", <<"meet", "google", "com">>, "/", "abc-defg-hij"),
     Url("https", <<"teams", "microsoft", "com">>, "/l/meetup-join/", "123"),
     Url("https", <<"teams", "live", "com">>, "/meet/", "room"),
     Url("https", <<"us02web", "zoom", "us">>, "/j/", "123"),
     Url("http", <<"zoom", "us">>, "/my/", "room"),
     Url("https", <<"webex", "com">>, "/meet/", "room")}

Texts == SeqsUpTo(LinkWords, MaxTokens)

EntryPoint(type, uri) == [EntryPointType |-> type, Uri |-> uri]

EntryPointLists ==
    {<<>>,
     <<EntryPoint("phone", Url("tel", <<>>, "", "123")),
       EntryPoint("video", Url("https", <<"meet", "google", "com">>, "/", "room"))>>,
     <<EntryPoint("video", Url("https", <<"zoom", "us">>, "/j/", "123"))>>}

LinkEvent(description, location, entryPoints) ==
    [Timed("e", "A", 1, 2) EXCEPT !.Description = description,
                                  !.Location = location,
                                  !.EntryPoints = entryPoints]

LinkInit ==
    /\ Parked
    /\ \E description, location \in Texts, entryPoints \in EntryPointLists :
        fn = [op |-> "input", event |-> LinkEvent(description, location, entryPoints),
              result |-> None]

CallGetPrimaryMeetingLink ==
    /\ fn.op = "input"
    /\ fn' = [fn EXCEPT !.op = "GetPrimaryMeetingLink",
                        !.result = GetPrimaryMeetingLink(fn.event.Description,
                                                         fn.event.Location)]
    /\ UNCHANGED engineVars

CallConvertEventToMeeting ==
    /\ fn.op = "input"
    /\ fn' = [fn EXCEPT !.op = "convertEventToMeeting",
                        !.result = convertEventToMeeting(fn.event, "c1", "a1")]
    /\ UNCHANGED engineVars

CallParseCalendarObject ==
    /\ fn.op = "input"
    /\ fn' = [fn EXCEPT !.op = "parseCalendarObject",
                        !.result = parseCalendarObject(fn.event)]
    /\ UNCHANGED engineVars

LinkNext ==
    \/ CallGetPrimaryMeetingLink
    \/ CallConvertEventToMeeting
    \/ CallParseCalendarObject

LinkSpec == LinkInit /\ [][LinkNext]_vars

(***************************************************************************)
(* The link parser called again and again.  The words of the texts: a link *)
(* of the patterns that are looked for first to fourth.                    *)
(***************************************************************************)
ParseWords ==
    {Url("https", <<"meet", "google", "com">>, "/", "abc-defg-hij"),
     Url("https", <<"teams", "microsoft", "com">>, "/l/meetup-join/", "123"),
     Url("https", <<"teams", "live", "com">>, "/meet/", "room"),
     Url("https", <<"us02web", "zoom", "us">>, "/j/", "123")}

\* the descriptions, and the locations: none or a Google Meet link
ParseInputs ==
    SeqsUpTo(ParseWords, MaxTokens) \X {location \in SeqsUpTo(ParseWords, 1) :
                                           \A word \in Range(location) :
                                               googleMeetRegex(word)}

\* a call that goes on with the slice the call before it returned
Returned_Accumulated(earlier, description, location) ==
    [description |-> description, location |-> location,
     links |-> (IF earlier = None THEN <<>> ELSE earlier.links)
                   \o ParseMeetingLinks(description, location),
     primary |-> GetPrimaryMeetingLink(description, location)]

(***************************************************************************)
(* What a call of ParseMeetingLinks and of GetPrimaryMeetingLink returns   *)
(* after the call that returned earlier: links is a new slice in every     *)
(* call, and the regular expressions are compiled once and never assigned. *)
(***************************************************************************)
Returned(earlier, description, location) ==
    [description |-> description, location |-> location,
     links |-> ParseMeetingLinks(description, location),
     primary |-> GetPrimaryMeetingLink(description, location)]

ParseInit ==
    /\ Parked
    /\ fn = NoCall

CallParseMeetingLinks(description, location) ==
    /\ LET earlier == IF fn.op = "none" THEN None ELSE fn.last
           call == Returned(earlier, description, location)
       IN  fn' = [op |-> "ParseMeetingLinks",
                  first |-> IF fn.op = "none" THEN call ELSE fn.first,
                  last |-> call,
                  again |-> fn.op # "none"]
    /\ UNCHANGED engineVars

ParseNext ==
    \E input \in ParseInputs : CallParseMeetingLinks(input[1], input[2])

ParseSpec == ParseInit /\ [][ParseNext]_vars

(***************************************************************************)
(* The tray texts on their own, with the default templates: a duration, a  *)
(* title (one of them longer than the longest title the tray shows) and    *)
(* the configured title length (0: not configured).                        *)
(***************************************************************************)
Durations == (0 - Minute)..MaxSeconds

FormatTitles == {"A", "Team Standup", "Quarterly Business Review Sync"}

FormatNow == 12 * 3600

FormatInit ==
    /\ Parked
    /\ \E d \in Durations, title \in FormatTitles,
          maxTitleLength \in {0, DefaultMaxTitleLength} :
        fn = [op |-> "input", d |-> d, title |-> title,
              maxTitleLength |-> maxTitleLength, result |-> ""]

CallFormatDuration ==
    /\ fn.op = "input"
    /\ fn' = [fn EXCEPT !.op = "formatDuration", !.result = formatDuration(fn.d)]
    /\ UNCHANGED engineVars

\* the meeting ends in fn.d seconds and began ten minutes ago
CallUpdateTrayForCurrentMeeting ==
    /\ fn.op = "input" /\ fn.d > 0
    /\ LET meeting == Meeting("m", fn.title, FormatNow - 10 * Minute, FormatNow + fn.d,
                              "c1", "a1", None)
       IN  fn' = [fn EXCEPT
                    !.op = "updateTrayForCurrentMeeting",
                    !.result = updateTrayForCurrentMeeting(
                                   meeting, FormatNow, DefaultCurrentMeetingFormat,
                                   fn.maxTitleLength)]
    /\ UNCHANGED engineVars

\* the meeting starts in fn.d seconds and takes half an hour
CallUpdateTrayForUpcomingMeeting ==
    /\ fn.op = "input" /\ fn.d > 0
    /\ LET meeting == Meeting("m", fn.title, FormatNow + fn.d,
                              FormatNow + fn.d + 30 * Minute, "c1", "a1", None)
       IN  fn' = [fn EXCEPT
                    !.op = "updateTrayForUpcomingMeeting",
                    !.result = updateTrayForUpcomingMeeting(
                                   meeting, FormatNow, DefaultUpcomingMeetingFormat,
                                   fn.maxTitleLength)]
    /\ UNCHANGED engineVars

FormatNext ==
    \/ CallFormatDuration
    \/ CallUpdateTrayForCurrentMeeting
    \/ CallUpdateTrayForUpcomingMeeting

FormatSpec == FormatInit /\ [][FormatNext]_vars

(***************************************************************************)
(* truncateTitle on its own, for every Config.MaxTitleLength: the          *)
(* configuration file gives any number.                                    *)
(***************************************************************************)
TitleInit ==
    /\ Parked
    /\ \E title \in FormatTitles, maxTitleLength \in (0 - 1)..MaxLength :
        fn = [op |-> "input", title |-> title, maxTitleLength |-> maxTitleLength,
              result |-> ""]

CallTruncateTitle ==
    /\ fn.op = "input"
    /\ fn' = [fn EXCEPT !.op = "truncateTitle",
                        !.result = truncateTitle(fn.title, fn.maxTitleLength)]
    /\ UNCHANGED engineVars

TitleNext == CallTruncateTitle

TitleSpec == TitleInit /\ [][TitleNext]_vars

(***************************************************************************)
(* The normalisers over timed events whose end is given, is a date, does   *)
(* not parse or is missing.                                                *)
(***************************************************************************)
EndKinds == {"dateTime", "date", "bad", "none"}

EndEvents ==
    {RawEvent("e", "A", "confirmed", "dateTime", s, ek, e) :
        s \in 0..MaxTime, ek \in EndKinds, e \in 1..(MaxTime + 1)}

EndInit ==
    /\ Parked
    /\ \E event \in EndEvents : fn = [op |-> "input", event |-> event, result |-> None]

EndNext ==
    \/ CallConvertEventToMeeting
    \/ CallParseCalendarObject

EndSpec == EndInit /\ [][EndNext]_vars

(***************************************************************************)
(* The meeting slots of the tray menu.  With the Google backend, one       *)
(* account is added and removed in the settings while the program runs.    *)
(* Calendar c1 holds up to two meetings with a link in the description,    *)
(* one after the other; the user clicks "Refresh", "Settings" and the      *)
(* slots that are enabled.                                                 *)
(***************************************************************************)
SlotCatalog ==
    [c \in Cals |->
        IF c = "c1"
        THEN {[Timed("x", "A", 1, 3) EXCEPT
                  !.Description = <<Url("https", <<"meet", "google", "com">>, "/", "abc-defg-hij")>>],
              [Timed("y", "B", 2, 4) EXCEPT
                  !.Description = <<Url("https", <<"us02web", "zoom", "us">>, "/j/", "123")>>]}
        ELSE {}]

(***************************************************************************)
(* WebSettingsManager.handleAddAccountAPI: the goroutine it starts appends *)
(* the account the OAuth2 flow returns to config.Accounts.                 *)
(***************************************************************************)
handleAddAccountAPI(account) ==
    /\ config.CalendarBackend = "google"
    /\ account \notin Range(config.Accounts)
    /\ config' = [config EXCEPT !.Accounts = Append(config.Accounts, account)]
    /\ UNCHANGED <<fn, proc, ticker, slots, now, content, enabledSources, conn, tm_meetings,
                   nm_meetings, notifiedMeetings, display, pc, loc, tickPending, track>>

(***************************************************************************)
(* WebSettingsManager.handleRemoveAccountAPI: the account with the ID of   *)
(* the request is taken out of config.Accounts; "Account not found"        *)
(* changes nothing.                                                        *)
(***************************************************************************)
handleRemoveAccountAPI(accountID) ==
    /\ accountID \in Range(config.Accounts)
    /\ config' = [config EXCEPT
                      !.Accounts = SelectSeq(config.Accounts, LAMBDA a : a # accountID)]
    /\ UNCHANGED <<fn, proc, ticker, slots, now, content, enabledSources, conn, tm_meetings,
                   nm_meetings, notifiedMeetings, display, pc, loc, tickPending, track>>

(***************************************************************************)
(* A click on slot n-1 of the menu, which is shown and enabled.  systray   *)
(* sends the click on the slot's ClickedCh; the handlers started for the   *)
(* slot all receive from that channel, and one of them takes the click.    *)
(* TrayManager.handleMeetingSlotClick calls joinMeeting with the meeting   *)
(* it was started with (xdg-open of its link, or nothing without a link);  *)
(* the handler of updateTrayForNoAccounts starts openSettings.             *)
(***************************************************************************)
handleMeetingSlotClick(n) ==
    /\ proc = "running"
    /\ n \in 1..Len(slots.shown)
    /\ slots.shown[n].Enabled
    /\ \E handler \in slots.handlers :
        /\ handler[1] = n
        /\ slots' = [slots EXCEPT !.clicked = [slot |-> n, opens |-> handler[2]]]
    /\ UNCHANGED <<fn, proc, ticker, now, config, content, enabledSources, conn, tm_meetings,
                   nm_meetings, notifiedMeetings, display, pc, loc, tickPending, track>>

SlotInit ==
    /\ Fresh
    /\ pc = [w \in Workers |-> "idle"]
    /\ \E backend \in Backends, accounts \in {<<>>, <<"a1">>}, notify \in BOOLEAN :
        /\ backend = "gnome" => accounts = <<>>
        /\ config = Config(backend, accounts, <<"c1">>, notify, DefaultNotificationTime)
        /\ content \in Worlds(SlotCatalog, backend)
    /\ enabledSources = Cals
    /\ fn = NoCall

SlotNext ==
    \/ \E w \in Clicks : handleMenuClicks(w)
    \/ \E w \in Clicks : openSettings(w)
    \/ \E w \in Clicks : Refresh(w, FALSE)
    \/ \E w \in Clicks : Check(w)
    \/ Idle /\ handleAddAccountAPI("a1")
    \/ Idle /\ handleRemoveAccountAPI("a1")
    \/ \E n \in 1..maxMeetingSlots : handleMeetingSlotClick(n)
    \/ Idle /\ Elapse

SlotSpec == SlotInit /\ [][SlotNext]_vars

(***************************************************************************)
(* The calendar backends: Config.CalendarBackend is a string of the        *)
(* configuration file, and nothing keeps it to "google" and "gnome".       *)
(***************************************************************************)
BackendValues == Backends \cup {"outlook"}

BackendInit ==
    /\ Fresh
    /\ pc = [w \in Workers |-> "idle"]
    /\ \E backend \in BackendValues, accounts \in {<<>>, <<"a1">>, <<"a1", "a2">>},
          enabled \in {<<>>, <<"c1">>}, notify \in BOOLEAN :
        /\ backend = "gnome" => accounts = <<>>
        /\ config = Config(backend, accounts, enabled, notify, DefaultNotificationTime)
        /\ content \in Worlds(EngineCatalog, backend)
    /\ enabledSources = Cals
    /\ fn = NoCall

BackendNext ==
    \/ \E w \in Clicks : handleMenuClicks(w)
    \/ \E w \in Clicks : Refresh(w, FALSE)
    \/ \E w \in Clicks : Check(w)
    \/ Idle /\ Elapse

BackendSpec == BackendInit /\ [][BackendNext]_vars

(***************************************************************************)
(* The triggers: OnReady's first refreshMeetings is running (setupTray has *)
(* started handleMenuClicks before it) while the user clicks "Refresh" or  *)
(* closes the settings dialog, over calendars that are edited at any time. *)
(* The cycles take less than a minute.                                     *)
(***************************************************************************)
RaceNext ==
    \/ \E w \in Clicks : handleMenuClicks(w)
    \/ \E w \in Clicks : openSettings(w)
    \/ \E w \in Refreshers \cup Clicks : Refresh(w, TRUE)
    \/ \E w \in Refreshers \cup Clicks : Check(w)

RaceSpec == Init /\ [][RaceNext]_vars

\* the selections a request to the calendar settings brings
CalendarSelections == {<<"c1">>, <<"c2">>}

(***************************************************************************)
(* The settings saved at any moment: refresh cycles one after the other,   *)
(* each started by a click on "Refresh", while the settings server stores  *)
(* the calendar selection and the notification settings of requests as     *)
(* they come in; the calendar c1 holds one meeting, nobody edits the       *)
(* calendars and the clock stands.                                         *)
(***************************************************************************)
SaveInit ==
    /\ Fresh
    /\ pc = [w \in Workers |-> "idle"]
    /\ \E backend \in Backends, accounts \in {<<>>, <<"a1", "a2">>},
          notify \in BOOLEAN :
        /\ backend = "gnome" => accounts = <<>>
        /\ config = Config(backend, accounts, <<"c1">>, notify, MaxLead)
    /\ content = [c \in Cals |-> IF c = "c1" THEN <<Timed("x", "A", 2, 4)>> ELSE <<>>]
    /\ enabledSources = Cals
    /\ fn = NoCall

SaveNext ==
    \/ \E w \in Clicks : handleMenuClicks(w)
    \/ \E w \in Clicks : Refresh(w, FALSE)
    \/ \E w \in Clicks : Check(w)
    \/ \E selectedCalendars \in CalendarSelections : handleCalendarsAPI(selectedCalendars)
    \/ \E enableNotifications \in BOOLEAN, notificationTime \in LeadTimes :
          handleNotificationsAPI(enableNotifications, notificationTime)

SaveSpec == SaveInit /\ [][SaveNext]_vars

\* Config.RefreshInterval as the configuration file or a request gives it:
\* nothing keeps it positive
RefreshIntervals == {0 - 1, 0, 1, DefaultRefreshInterval}

(***************************************************************************)
(* OnReady, lines 57-60: startPeriodicRefresh makes the refresh ticker     *)
(* (time.NewTicker panics when the duration is not positive, and nothing   *)
(* recovers it), StartNotificationWatcher makes the watcher's ticker, and  *)
(* the first refreshMeetings begins.                                       *)
(***************************************************************************)
OnReady(w) ==
    /\ proc = "starting"
    /\ IF GetRefreshDuration <= 0
       THEN /\ proc' = "panicked"
            /\ UNCHANGED pc
       ELSE /\ proc' = "running"
            /\ pc' = [pc EXCEPT ![w] = "refresh"]
    /\ ticker' = IF GetRefreshDuration <= 0 THEN ticker
                 ELSE NewTicker(GetRefreshDuration, now)
    /\ UNCHANGED <<fn, slots, now, config, content, enabledSources, conn, tm_meetings,
                   nm_meetings, notifiedMeetings, display, loc, tickPending, track>>

(***************************************************************************)
(* TrayManager.cleanup, called by OnExit: the refresh ticker is stopped    *)
(* (Stop sends no further tick and leaves a tick that was sent in the      *)
(* channel) and the context is cancelled.                                  *)
(***************************************************************************)
cleanup ==
    /\ proc = "running"
    /\ proc' = "cancelled"
    /\ UNCHANGED <<fn, ticker, slots, now, config, content, enabledSources, conn, tm_meetings,
                   nm_meetings, notifiedMeetings, display, pc, loc, tickPending, track>>

(***************************************************************************)
(* TrayManager.startPeriodicRefresh, lines 171-172: the goroutine's select *)
(* takes ctx.Done and the goroutine returns.  (With a tick in the channel  *)
(* too, the select may take either case.)                                  *)
(***************************************************************************)
startPeriodicRefresh_Done(w) ==
    /\ pc[w] = "idle"
    /\ proc = "cancelled"
    /\ pc' = [pc EXCEPT ![w] = "done"]
    /\ UNCHANGED <<fn, proc, ticker, slots, now, config, content, enabledSources, conn, tm_meetings,
                   nm_meetings, notifiedMeetings, display, loc, tickPending, track>>

(***************************************************************************)
(* main: systray.Run returns once OnExit has returned, and the process     *)
(* ends with main.                                                         *)
(***************************************************************************)
mainReturns ==
    /\ proc = "cancelled"
    /\ proc' = "exited"
    /\ UNCHANGED <<fn, ticker, slots, now, config, content, enabledSources, conn, tm_meetings,
                   nm_meetings, notifiedMeetings, display, pc, loc, tickPending, track>>

Alive == proc \in {"running", "cancelled"}

(***************************************************************************)
(* The life of the process: OnReady, the refresh goroutine and the watcher *)
(* while the clock runs, then cleanup and the end of main; nobody edits    *)
(* the calendars.                                                          *)
(***************************************************************************)
LifeInit ==
    /\ Built
    /\ proc = "starting"
    /\ ticker = None
    /\ pc = [w \in Workers |-> "idle"]
    /\ \E backend \in Backends, accounts \in {<<>>, <<"a1">>},
          notify \in BOOLEAN, minutes \in LeadTimes, interval \in RefreshIntervals :
        /\ backend = "gnome" => accounts = <<>>
        /\ config = [Config(backend, accounts, <<"c1">>, notify, minutes)
                         EXCEPT !.RefreshInterval = interval]
        /\ content \in Worlds(EngineCatalog, backend)
    /\ enabledSources = Cals
    /\ fn = NoCall

LifeNext ==
    \/ \E w \in Refreshers : OnReady(w)
    \/ Alive /\ \E w \in Refreshers : Refresh(w, FALSE)
    \/ Alive /\ \E w \in Refreshers : startPeriodicRefresh(w)
    \/ \E w \in Refreshers : startPeriodicRefresh_Done(w)
    \/ Alive /\ \E w \in Refreshers \cup {Watcher} : Check(w)
    \/ Alive /\ StartNotificationWatcher
    \/ Alive /\ Tick
    \/ cleanup
    \/ mainReturns

LifeSpec == LifeInit /\ [][LifeNext]_vars

\* a save that also resets the refresh ticker to the interval it stores
handleGeneralAPI_Reset(refreshInterval) ==
    /\ config' = [config EXCEPT !.RefreshInterval = refreshInterval]
    /\ ticker' = IF ticker # None /\ refreshInterval > 0
                 THEN [ticker EXCEPT !.period = refreshInterval]
                 ELSE ticker
    /\ UNCHANGED <<fn, proc, slots, now, content, enabledSources, conn, tm_meetings,
                   nm_meetings, notifiedMeetings, display, pc, loc, tickPending, track>>

(***************************************************************************)
(* WebSettingsManager.handleGeneralAPI, action "save": the refresh         *)
(* interval of the request is stored as it comes.  (The other fields it    *)
(* stores are not part of the model's configuration.)  The refresh ticker  *)
(* is not touched.                                                         *)
(***************************************************************************)
handleGeneralAPI(refreshInterval) ==
    /\ config' = [config EXCEPT !.RefreshInterval = refreshInterval]
    /\ UNCHANGED <<fn, proc, ticker, slots, now, content, enabledSources, conn, tm_meetings,
                   nm_meetings, notifiedMeetings, display, pc, loc, tickPending, track>>

(***************************************************************************)
(* A minute passes, counted against the refresh ticker: the ticker sends a *)
(* tick when a whole number of its periods has passed since NewTicker.     *)
(* The channel of a ticker holds one tick.                                 *)
(***************************************************************************)
TickerTick ==
    /\ now < MaxTime
    /\ proc = "running"
    /\ ticker # None
    /\ now' = now + 1
    /\ tickPending' = IF (now + 1 - ticker.started) % ticker.period = 0
                      THEN tickPending \cup Refreshers
                      ELSE tickPending
    /\ UNCHANGED <<fn, proc, ticker, slots, config, content, enabledSources, conn, tm_meetings,
                   nm_meetings, notifiedMeetings, display, pc, loc, track>>

(***************************************************************************)
(* The refresh timer: the program starts with any refresh interval, the    *)
(* clock runs in minutes, and the general settings are saved at any time.  *)
(***************************************************************************)
TimerInit ==
    /\ Built
    /\ proc = "starting"
    /\ ticker = None
    /\ pc = [w \in Workers |-> "idle"]
    /\ \E backend \in Backends, accounts \in {<<>>, <<"a1">>},
          notify \in BOOLEAN, interval \in RefreshIntervals :
        /\ backend = "gnome" => accounts = <<>>
        /\ config = [Config(backend, accounts, <<"c1">>, notify, DefaultNotificationTime)
                         EXCEPT !.RefreshInterval = interval]
    /\ content = [c \in Cals |-> IF c = "c1" THEN <<Timed("x", "A", 2, 4)>> ELSE <<>>]
    /\ enabledSources = Cals
    /\ fn = NoCall

TimerNext ==
    \/ \E w \in Refreshers : OnReady(w)
    \/ \E w \in Refreshers : Refresh(w, FALSE)
    \/ \E w \in Refreshers : startPeriodicRefresh(w)
    \/ \E w \in Refreshers : Check(w)
    \/ \E refreshInterval \in RefreshIntervals : handleGeneralAPI(refreshInterval)
    \/ TickerTick

TimerSpec == TimerInit /\ [][TimerNext]_vars


(***************************************************************************)
(* The claims about the reminders.                                         *)
(***************************************************************************)

\* a step of the worker w
Steps(w) == pc'[w] # pc[w] \/ loc'[w] # loc[w]

\* C1: a meeting that stays in the sequence the notification manager holds
\* (and so does its ID) gets at most one reminder, whatever refresh cycles
\* and notification checks run.
C1_AtMostOnce ==
    \A m \in DOMAIN track : track[m].sent <= 1

\* C2: in a notification check, a reminder is sent for a meeting if and only
\* if its ID is not marked and 0 < StartTime - now <= leadTime (now and
\* leadTime as the check read them), and every ID the check sent a reminder
\* for is marked when the check ends.
C2_FiresIffDueAndStaysMarked ==
    [][\A w \in Workers :
         /\ (pc[w] = "loop" /\ Steps(w)) =>
                LET meeting == loc[w].range[loc[w].i]
                    timeUntilMeeting == meeting.StartTime - loc[w].now
                IN  pc'[w] = "mark" <=>
                        /\ meeting.ID \notin notifiedMeetings
                        /\ 0 < timeUntilMeeting
                        /\ timeUntilMeeting <= loc[w].notificationTime
         /\ (pc[w] = "prune" /\ Steps(w)) =>
                loc[w].sent \subseteq notifiedMeetings']_vars

\* C3: a meeting that is in the sequence, with the reminders switched on and
\* a lead time of at least a minute, from before StartTime - leadTime until
\* StartTime, has got a reminder when it starts (the watcher has served every
\* tick by then).
C3_RemindedByStart ==
    \A m \in DOMAIN track :
        (track[m].early /\ config.NotificationTime >= 1 /\ now >= m.StartTime)
            => track[m].sent >= 1


(***************************************************************************)
(* The claims about the aggregation.                                       *)
(***************************************************************************)

\* C4 (as amended): the published sequence is sorted ascending by StartTime.
C4_SortedByStartTime ==
    \A i, j \in 1..Len(tm_meetings) :
        i < j => tm_meetings[i].StartTime <= tm_meetings[j].StartTime

\* a finished cycle published three meetings, one of the calendar fetched
\* last in front of two that start together
C4_Witness ==
    /\ Idle
    /\ Len(tm_meetings) = 3
    /\ tm_meetings[1].CalendarID = "c2" /\ tm_meetings[2].CalendarID = "c1"
    /\ tm_meetings[2].StartTime = tm_meetings[3].StartTime

\* C4 (as stated): the published sequence is sorted ascending by StartTime,
\* and meetings with equal StartTime are in the lexicographic order of their
\* titles.
C4_TiesByTitle ==
    \A i, j \in 1..Len(tm_meetings) :
        i < j =>
            \/ tm_meetings[i].StartTime < tm_meetings[j].StartTime
            \/ /\ tm_meetings[i].StartTime = tm_meetings[j].StartTime
               /\ ~TitleLess(tm_meetings[j].Title, tm_meetings[i].Title)

\* the meeting comes from this raw event
FromEvent(meeting, event) ==
    meeting.Title = event.Summary /\ meeting.StartTime = event.Start

\* C5: no cancelled and no all-day (date-only start) event is in the sequence
\* that drives the tray, nor in the one that drives the notifications.
C5_NoCancelledNoAllDay ==
    \A c \in Cals : \A event \in Range(content[c]) :
        (event.Status = "cancelled" \/ event.StartKind = "date") =>
            \A meeting \in Range(tm_meetings) \cup Range(nm_meetings) :
                ~FromEvent(meeting, event)

\* what a source <<account, calendar>> holds, as meetings
Normalised(source) ==
    IF IsGnomeBackend THEN getMeetingsFromCalendar(content[source[2]])
    ELSE GoogleEvents(content[source[2]], source[2], source[1])

Expected(sources) == UNION {Range(Normalised(source)) : source \in sources}

\* C6: the sequence a cycle publishes holds exactly the meetings of the
\* sources the cycle fetched, whichever other calendars or accounts failed.
C6_SucceededSourcesPublished ==
    [][\A w \in Workers :
         (pc[w] = "sort" /\ Steps(w)) =>
            /\ Range(tm_meetings') = Expected(loc[w].ok)
            /\ Len(tm_meetings') = Cardinality(Expected(loc[w].ok))]_vars

\* a cycle has published the meetings of the source it fetched, after
\* another source failed
C6_Witness ==
    \E w \in Clicks :
        /\ pc[w] = "update"
        /\ loc[w].bad # {} /\ loc[w].ok # {}
        /\ tm_meetings # <<>>
        /\ Range(tm_meetings) = Expected(loc[w].ok)

\* every source of the cycle has failed: the GNOME listing or fetch, or every
\* account and calendar
AllFailed(w) ==
    \/ pc[w] = "noaccounts" /\ IsGnomeBackend
    \/ pc[w] = "display" /\ loc[w].ok = {} /\ loc[w].bad # {}

\* C7: a cycle in which every source fails ends with the tray showing no
\* meeting and with an empty published sequence.
C7_AllFailedIsEmpty ==
    [][\A w \in Workers :
         (AllFailed(w) /\ Steps(w)) =>
            /\ display'.state \in {"NoMeetings", "NoAccounts"}
            /\ tm_meetings' = <<>>]_vars

(***************************************************************************)
(* The claims about the display.                                           *)
(***************************************************************************)

\* the meetings that contain t, the start included and the end excluded
Containing(meetings, t) ==
    {m \in Range(meetings) : m.StartTime <= t /\ t < m.EndTime}

Later(meetings, t) == {m \in Range(meetings) : m.StartTime > t}

\* C8: the resolver yields InMeeting if and only if some meeting has
\* StartTime <= now < EndTime, otherwise Upcoming if and only if some meeting
\* has StartTime > now, otherwise NoMeetings.
C8_ResolverStates ==
    [][\A w \in Workers :
         (pc[w] = "display" /\ Steps(w)) =>
            display'.state =
                IF Containing(tm_meetings, now) # {} THEN "InMeeting"
                ELSE IF Later(tm_meetings, now) # {} THEN "Upcoming"
                ELSE "NoMeetings"]_vars

\* C9: when several meetings contain now, the meeting of the InMeeting state
\* starts no later than any meeting that has started and has not ended.
C9_EarliestCurrent ==
    [][\A w \in Workers :
         (pc[w] = "display" /\ Steps(w) /\ display'.state = "InMeeting") =>
            \A m \in Range(tm_meetings) :
                (m.StartTime < now /\ now < m.EndTime) =>
                    display'.meeting.StartTime <= m.StartTime]_vars

\* C10: when no meeting contains now and some meeting starts after now, the
\* state is Upcoming and its meeting has the smallest StartTime greater than
\* now.
C10_UpcomingIsEarliest ==
    [][\A w \in Workers :
         (/\ pc[w] = "display" /\ Steps(w)
          /\ Containing(tm_meetings, now) = {}
          /\ Later(tm_meetings, now) # {}) =>
            /\ display'.state = "Upcoming"
            /\ display'.meeting \in Later(tm_meetings, now)
            /\ \A m \in Later(tm_meetings, now) :
                   display'.meeting.StartTime <= m.StartTime]_vars

\* the tray shows the first of meetings that start at two different later
\* times, after one that has ended
C10_Witness ==
    /\ Idle
    /\ display.state = "Upcoming"
    /\ display = DisplayOf(tm_meetings, now)
    /\ Containing(tm_meetings, now) = {}
    /\ Cardinality({m.StartTime : m \in Later(tm_meetings, now)}) >= 2
    /\ \E m \in Range(tm_meetings) : m.EndTime <= now

(***************************************************************************)
(* The claims about the workers.                                           *)
(***************************************************************************)

\* the workers that run a refresh cycle
InFlight == {w \in Refreshers \cup Clicks : pc[w] # "idle"}

\* C11: at most one refresh cycle is in flight at any time (a trigger that
\* arrives while a cycle runs starts no second cycle).
C11_OneCycleInFlight ==
    Cardinality(InFlight) <= 1

\* the worker is inside the publication (tm.meetings is written, nm.meetings
\* is about to be) or inside a notification check
InShared(w) == pc[w] \in {"update", "loop", "mark", "prune"}

\* C12: no two workers are at the same time inside code that reads or writes
\* the meeting lists or the notified map.
C12_MutualExclusion ==
    \A w1, w2 \in Workers : (InShared(w1) /\ InShared(w2)) => w1 = w2

\* C13: the tray's and the notification manager's meeting lists are replaced
\* together: when no cycle is running both hold the same sequence, and every
\* notification check starts on the list the tray holds.
C13_PublishedTogether ==
    [][/\ (\A w \in Refreshers \cup Clicks : pc'[w] = "idle")
            => tm_meetings' = nm_meetings'
       /\ \A w \in Workers :
            (pc[w] = "check" /\ Steps(w)) => nm_meetings = tm_meetings]_vars

(***************************************************************************)
(* The claims about the notified map and the settings.                     *)
(***************************************************************************)

\* the IDs of the meetings of the sequence that have not ended
Live(meetings, t) == {m.ID : m \in {m \in Range(meetings) : t < m.EndTime}}

\* C14: when a refresh cycle ends, the notified map holds only IDs of
\* meetings of the published sequence that have not ended, and no more IDs
\* than the sequence has meetings.
C14_NotifiedWithinSequence ==
    [][\A w \in Workers :
         (pc[w] \in {"display", "noaccounts"} /\ Steps(w)) =>
            /\ notifiedMeetings' \subseteq Live(nm_meetings', now')
            /\ Cardinality(notifiedMeetings') <= Len(nm_meetings')]_vars

\* C15: a reminder that no notifier took still marks the meeting's ID in that
\* check; no reminder is sent for an ID that is marked; and the steps that
\* send and mark leave both meeting lists and the display as they are.
C15_FailedDeliveryStillMarks ==
    [][\A w \in Workers :
         /\ (pc[w] = "mark" /\ Steps(w) /\ ~loc[w].delivered) =>
                loc[w].range[loc[w].i].ID \in notifiedMeetings'
         /\ (pc[w] = "loop" /\ Steps(w)
                /\ loc[w].range[loc[w].i].ID \in notifiedMeetings) =>
                pc'[w] # "mark"
         /\ (pc[w] \in {"loop", "mark"} /\ Steps(w)) =>
                /\ tm_meetings' = tm_meetings /\ nm_meetings' = nm_meetings
                /\ display' = display]_vars

\* a check has sent a reminder that no notifier took and has marked its ID,
\* while another meeting of the sequence is not marked
C15_Witness ==
    \E w \in Clicks :
        /\ pc[w] = "prune" /\ ~loc[w].delivered
        /\ loc[w].sent # {} /\ loc[w].sent \subseteq notifiedMeetings
        /\ \E m \in Range(nm_meetings) : m.ID \notin notifiedMeetings

\* C20: with a lead time that is not positive, a check sends the reminder of
\* every unmarked meeting that starts within the default lead time of five
\* minutes.
C20_DefaultLeadTime ==
    [][\A w \in Workers :
         (pc[w] = "loop" /\ Steps(w) /\ config.NotificationTime <= 0) =>
            LET meeting == loc[w].range[loc[w].i]
                timeUntilMeeting == meeting.StartTime - loc[w].now
            IN  (/\ meeting.ID \notin notifiedMeetings
                 /\ 0 < timeUntilMeeting
                 /\ timeUntilMeeting <= DefaultNotificationTime)
                    => pc'[w] = "mark"]_vars

(***************************************************************************)
(* The claims about the links.                                             *)
(***************************************************************************)

IsGoogleMeet(word) == googleMeetRegex(word)

IsTeams(word) == teamsRegex(word) \/ teamsLiveRegex(word)

IsZoom(word) == zoomRegex(word) \/ zoomMyRegex(word)

LinkType(link) == IF link = None THEN "none" ELSE link.Type

\* the provider of the highest priority among the links of the text
BestType(text) ==
    IF \E word \in Range(text) : IsGoogleMeet(word) THEN "meet"
    ELSE IF \E word \in Range(text) : IsTeams(word) THEN "teams"
    ELSE IF \E word \in Range(text) : IsZoom(word) THEN "zoom"
    ELSE "none"

\* the link is one the text holds, of the provider its type names
LinkOf(link, text) ==
    link # None =>
        /\ link.URL \in Range(text)
        /\ link.Type = "meet" => IsGoogleMeet(link.URL)
        /\ link.Type = "teams" => IsTeams(link.URL)
        /\ link.Type = "zoom" => IsZoom(link.URL)

LocationThenDescription(event) ==
    IF BestType(event.Location) # "none" THEN BestType(event.Location)
    ELSE BestType(event.Description)

\* C17: the link of a normalised event is the video entry point
\* on meet.google.com if there is one, else the link of the location if it
\* holds one, else the link of the description.
C17_LocationBeforeDescription ==
    /\ fn.op = "convertEventToMeeting" =>
            LinkType(fn.result.MeetingLink) =
                IF ConferenceLink(fn.event.EntryPoints) # None THEN "meet"
                ELSE LocationThenDescription(fn.event)
    /\ fn.op = "parseCalendarObject" =>
            LinkType(fn.result.MeetingLink) = LocationThenDescription(fn.event)

(***************************************************************************)
(* The claims about the tray texts.                                        *)
(***************************************************************************)

\* a duration of d seconds as text: "0m" when it is not positive, "<1m" below
\* a minute, the minutes below an hour, else the hours and the minutes
DurationText(d) ==
    LET h == d \div 3600
        m == (d \div 60) % 60
    IN  IF d <= 0 THEN "0m"
        ELSE IF d < 60 THEN "<1m"
        ELSE IF h = 0 THEN ToString(m) \o "m"
        ELSE IF m = 0 THEN ToString(h) \o "h"
        ELSE ToString(h) \o "h " \o ToString(m) \o "m"

\* C18: formatDuration gives "0m" for d <= 0, "<1m" for 0 < d < 1 minute,
\* "Ym" below an hour, "Xh" for whole hours and "Xh Ym" otherwise, the
\* minutes rounded down.
C18_FormatDuration ==
    fn.op = "formatDuration" => fn.result = DurationText(fn.d)

\* the title as the {title} placeholder shows it: cut to the title length
\* in force, the last three characters of a cut title being dots
TitleShown ==
    IF Len(fn.title) <= DefaultMaxTitleLength THEN fn.title
    ELSE SubSeq(fn.title, 1, DefaultMaxTitleLength - 3) \o "..."

\* C19 (as stated): the tray text of the Upcoming state is "<title> in
\* <duration>" for every positive time until the start, and that of the
\* InMeeting state is "<title> <duration> left".
C19_TemplateAlways ==
    /\ fn.op = "updateTrayForUpcomingMeeting" =>
            fn.result = TitleShown \o " in " \o DurationText(fn.d)
    /\ fn.op = "updateTrayForCurrentMeeting" =>
            fn.result = TitleShown \o " " \o DurationText(fn.d) \o " left"

\* C19 (as amended): the tray text of the Upcoming state is "<title> in
\* <duration>" from one minute until the start on and "<title> starting now"
\* below one minute; that of the InMeeting state is "<title> <duration> left".
C19_TrayText ==
    /\ fn.op = "updateTrayForUpcomingMeeting" =>
            fn.result = IF fn.d < 60 THEN TitleShown \o " starting now"
                        ELSE TitleShown \o " in " \o DurationText(fn.d)
    /\ fn.op = "updateTrayForCurrentMeeting" =>
            fn.result = TitleShown \o " " \o DurationText(fn.d) \o " left"

\* a meeting that starts in half a minute
C19_Witness ==
    /\ fn.op = "updateTrayForUpcomingMeeting"
    /\ fn.d = 30
    /\ fn.result = "Team Standup starting now"


(***************************************************************************)
(* The claims about the life of the process.                               *)
(***************************************************************************)

\* C21: a refresh interval that is not positive is never fatal: the process
\* does not end in a panic when the periodic refresh is started with it.
C21_NeverFatal == ~(config.RefreshInterval <= 0 /\ proc = "panicked")

\* C24: once cleanup has run, no worker begins a refresh cycle, no worker
\* runs a notification check and no reminder is fired.
C24_QuietAfterCleanup ==
    [][proc = "cancelled" =>
         \A w \in Workers :
            /\ ~(pc[w] = "idle" /\ pc'[w] = "refresh")
            /\ ~(pc[w] = "check" /\ pc'[w] # "check")
            /\ ~(pc[w] = "loop" /\ pc'[w] = "mark")]_vars


(***************************************************************************)
(* The claims about the calendars that are fetched.                        *)
(***************************************************************************)

\* the cycle of the worker w publishes a sequence in which no meeting comes
\* from a calendar outside the set enabled
OnlyFrom(w, enabled) ==
    (pc[w] = "sort" /\ Steps(w)) =>
        \A c \in Cals \ enabled : \A event \in Range(content[c]) :
            \A meeting \in Range(tm_meetings') : ~FromEvent(meeting, event)

EnabledSet ==
    IF config.EnabledCalendars # <<>> THEN Range(config.EnabledCalendars)
    ELSE IF IsGnomeBackend THEN enabledSources
    ELSE Cals

SameInput ==
    /\ fn.op = "ParseMeetingLinks" /\ fn.again
    /\ fn.last.description = fn.first.description
    /\ fn.last.location = fn.first.location

LastText == fn.last.description \o fn.last.location

FirstAt(url) == CHOOSE k \in 1..Len(LastText) :
                    LastText[k] = url /\ \A j \in 1..(k - 1) : LastText[j] # url

\* the regular expressions in the order they are applied
PatternRank(url) ==
    IF googleMeetRegex(url) THEN 1
    ELSE IF teamsRegex(url) THEN 2
    ELSE IF teamsLiveRegex(url) THEN 3
    ELSE IF zoomRegex(url) THEN 4
    ELSE 5

\* the provider whose pattern the URL matches
ProviderOf(url) ==
    IF IsGoogleMeet(url) THEN "meet"
    ELSE IF IsTeams(url) THEN "teams"
    ELSE IF IsZoom(url) THEN "zoom"
    ELSE "unknown"

\* every match of the text is returned as often as it stands in the text,
\* tagged with its provider
AllMatches ==
    LET links == fn.last.links
    IN  /\ \A i \in 1..Len(links) :
              /\ links[i].URL \in Range(LastText)
              /\ links[i].Type = ProviderOf(links[i].URL)
        /\ \A url \in Range(LastText) :
              ProviderOf(url) # "unknown" =>
                  Cardinality({i \in 1..Len(links) : links[i].URL = url})
                      = Cardinality({k \in 1..Len(LastText) : LastText[k] = url})

Snapshot(w) == IF loc[w].started = None THEN config ELSE loc[w].started

\* the calendars, account by account, that a cycle fetches under cfg
SourcesOf(cfg) ==
    IF cfg.CalendarBackend = "gnome"
    THEN Sources("", IF Len(cfg.EnabledCalendars) = 0 THEN EnabledSourceIDs
                     ELSE cfg.EnabledCalendars)
    ELSE UNION {Sources(account, IF Len(cfg.EnabledCalendars) = 0 THEN CalendarList
                                 ELSE cfg.EnabledCalendars) :
                    account \in Range(cfg.Accounts)}

\* C25: a cycle uses the configuration in force when it started in all its
\* steps: it fetches the calendars enabled then from the accounts of then,
\* and its check runs if the notifications were switched on then, with the
\* lead time of then.
C25_OneSnapshot ==
    [][\A w \in Workers :
         /\ (pc[w] = "sort" /\ Steps(w)) =>
                loc[w].ok \cup loc[w].bad = SourcesOf(Snapshot(w))
         /\ (pc[w] = "check" /\ Steps(w)) =>
                IF Snapshot(w).EnableNotifications
                THEN /\ pc'[w] \in {"loop", "prune"}
                     /\ loc'[w].notificationTime = Snapshot(w).NotificationTime
                ELSE pc'[w] = AfterCheck(w)]_vars


(***************************************************************************)
(* The claims about the meetings of the published sequence.                *)
(***************************************************************************)

\* C26: every two entries of the published sequence have different IDs, and
\* no entry has an empty ID.
C26_DistinctIDs ==
    \A i, j \in 1..Len(tm_meetings) :
        /\ tm_meetings[i].ID # ""
        /\ i # j => tm_meetings[i].ID # tm_meetings[j].ID

\* C27: every meeting of the published sequence ends after it starts.
C27_EndsAfterStart ==
    \A i \in 1..Len(tm_meetings) :
        tm_meetings[i].EndTime > tm_meetings[i].StartTime

\* C28: a timed event with a start and with no end, or with an end that does
\* not parse, becomes a meeting that ends one hour after its start, in either
\* backend; it is not dropped.
C28_MissingEndIsOneHour ==
    (/\ fn.op \in {"convertEventToMeeting", "parseCalendarObject"}
     /\ fn.event.StartKind = "dateTime"
     /\ fn.event.EndKind \in {"bad", "none"}) =>
        /\ fn.result # None
        /\ fn.result.StartTime = fn.event.Start
        /\ fn.result.EndTime = fn.event.Start + Hour

(***************************************************************************)
(* The claims about the title.                                             *)
(***************************************************************************)

\* the maximum length in force
MaxOf(maxTitleLength) ==
    IF maxTitleLength <= 0 THEN DefaultMaxTitleLength ELSE maxTitleLength

EndsWithEllipsis(text) ==
    Len(text) >= 3 /\ SubSeq(text, Len(text) - 2, Len(text)) = "..."

\* C29 as stated: a title that fits comes back unchanged, and any other comes
\* back as a text of at most the maximum length that ends with an ellipsis;
\* a maximum that is not positive counts as 25.
C29_EllipsisWhenCut ==
    fn.op = "truncateTitle" =>
        IF Len(fn.title) <= MaxOf(fn.maxTitleLength)
        THEN fn.result = fn.title
        ELSE /\ Len(fn.result) <= MaxOf(fn.maxTitleLength)
             /\ EndsWithEllipsis(fn.result)

\* C29, amended: a title that fits comes back unchanged; any other comes back
\* as a text of at most the maximum length, which ends with an ellipsis when
\* the maximum is above 3 and is the beginning of the title, without an
\* ellipsis, when the maximum is 1 to 3; a maximum that is not positive
\* counts as 25.
C29_Truncated ==
    fn.op = "truncateTitle" =>
        IF Len(fn.title) <= MaxOf(fn.maxTitleLength)
        THEN fn.result = fn.title
        ELSE /\ Len(fn.result) <= MaxOf(fn.maxTitleLength)
             /\ IF MaxOf(fn.maxTitleLength) > 3
                THEN EndsWithEllipsis(fn.result)
                ELSE fn.result = SubSeq(fn.title, 1, MaxOf(fn.maxTitleLength))

\* a title has been cut to a maximum of 1 to 3, and another under the default
\* that stands in for a maximum that is not positive
C29_Witness ==
    /\ fn.op = "truncateTitle"
    /\ Len(fn.title) > MaxOf(fn.maxTitleLength)
    /\ \/ fn.maxTitleLength \in 1..3 /\ ~EndsWithEllipsis(fn.result)
       \/ fn.maxTitleLength <= 0 /\ Len(fn.result) = DefaultMaxTitleLength


(***************************************************************************)
(* The claims about the steps of a cycle.                                  *)
(***************************************************************************)

\* the sequence is in the order of the start times
Sorted(meetings) ==
    \A i, j \in 1..Len(meetings) :
        i < j => meetings[i].StartTime <= meetings[j].StartTime

\* C31: in a refresh cycle the display state is resolved before the
\* notification check of the cycle runs (no cycle goes from its check on to
\* resolving the display), and the check runs on a sorted sequence.
C31_DisplayBeforeCheck ==
    [][\A w \in Workers \ {Watcher} :
         /\ (pc[w] \in {"check", "loop", "mark", "prune"} /\ Steps(w)) =>
                pc'[w] # "display"
         /\ (pc[w] = "check" /\ Steps(w)) => Sorted(nm_meetings)]_vars

\* the worker w takes a step of a cycle that aborts: refreshMeetings finds no
\* account or fails to list or to fetch the GNOME calendars, or
\* updateTrayForNoAccounts runs
Aborts(w) ==
    \/ pc[w] = "refresh" /\ pc'[w] = "noaccounts"
    \/ pc[w] = "noaccounts" /\ Steps(w)

\* C32: a refresh cycle that aborts leaves the meeting list of the tray, the
\* meeting list of the notification manager and the notified IDs as they
\* were.
C32_AbortKeepsLists ==
    [][\A w \in Workers :
         Aborts(w) => UNCHANGED <<tm_meetings, nm_meetings, notifiedMeetings>>]_vars

\* a cycle has aborted after an earlier cycle published meetings, and both
\* lists still hold them
C32_Witness ==
    /\ Idle
    /\ display.state = "NoAccounts"
    /\ tm_meetings # <<>>
    /\ nm_meetings = tm_meetings

(***************************************************************************)
(* The claims about the notification switch.                               *)
(***************************************************************************)

\* C33: with the notifications switched off a notification check does
\* nothing: it returns at once, sends no reminder and leaves the notified IDs
\* as they were.
C33_DisabledIsNoOp ==
    [][\A w \in Workers :
         (pc[w] = "check" /\ Steps(w) /\ ~config.EnableNotifications) =>
            /\ pc'[w] = AfterCheck(w)
            /\ loc'[w].sent = {}
            /\ UNCHANGED notifiedMeetings]_vars

\* a check has returned with the notifications switched off while an ID was
\* notified and the reminder of another meeting was due
C33_Witness ==
    \E w \in Clicks :
        /\ pc[w] = "display"
        /\ ~config.EnableNotifications
        /\ notifiedMeetings # {}
        /\ \E i \in 1..Len(nm_meetings) :
              IsDue(nm_meetings[i], notifiedMeetings, now, DefaultNotificationTime)

\* C34: a click on a slot that is shown and enabled opens what the slot shows
\* at that moment, the link of its meeting, and nothing else: not the link of
\* a meeting an earlier cycle showed there, and not the settings.
C34_ClickOpensShown ==
    [][\A n \in 1..maxMeetingSlots :
          (slots'.clicked # slots.clicked /\ slots'.clicked.slot = n)
              => slots'.clicked.opens = slots.shown[n].Opens]_vars

C34_StaleJoin ==
    /\ slots.clicked # None
    /\ slots.clicked.slot \in 1..Len(slots.shown)
    /\ slots.shown[slots.clicked.slot].Enabled
    /\ slots.clicked.opens \notin {None, Settings}
    /\ slots.shown[slots.clicked.slot].Opens # slots.clicked.opens

\* C35: the refresh ticker keeps the period it was made with, the refresh
\* interval of the configuration at startup: no step changes it, a save of
\* another refresh interval in the settings included, and the ticker ticks
\* a whole number of those periods after the start.
C35_PeriodReadOnce ==
    [][/\ (ticker = None /\ ticker' # None) =>
             ticker' = NewTicker(config.RefreshInterval, now)
       /\ ticker # None => ticker' = ticker
       /\ (\E w \in Refreshers : w \in tickPending' /\ w \notin tickPending) =>
             (now' - ticker.started) % ticker.period = 0]_vars

\* the ticker has ticked on its own period after a save of an interval on
\* which it would not have ticked
C35_Witness ==
    /\ ticker # None
    /\ tickPending \cap Refreshers # {}
    /\ config.RefreshInterval > 0
    /\ config.RefreshInterval # ticker.period
    /\ (now - ticker.started) % config.RefreshInterval # 0

Unsupported == config.CalendarBackend \notin Backends /\ Len(config.Accounts) >= 1

\* C36: with a backend that is neither "google" nor "gnome" and an account,
\* no source is ever fetched, a refresh cycle never aborts, both meeting
\* lists stay empty, the tray stays in NoMeetings and the process runs on.
C36_UnsupportedBackend ==
    Unsupported =>
        /\ \A w \in Workers : loc[w].ok = {} /\ loc[w].allMeetings = <<>>
                                /\ pc[w] # "noaccounts"
        /\ tm_meetings = <<>>
        /\ nm_meetings = <<>>
        /\ display = [state |-> "NoMeetings", meeting |-> None]
        /\ proc = "running"

\* a cycle has run to its end with two accounts over calendars that hold
\* meetings
C36_Witness ==
    /\ Unsupported
    /\ Idle
    /\ Len(config.Accounts) = 2
    /\ content["c1"] # <<>>
    /\ slots.shown = displayNoMeetingsInSlots

=========================================================================
